---- MODULE Spec2Model ----
(***************************************************************************)
(* Model of the Slack terminal client (src/cli.py, src/app.py,             *)
(* src/formatting.py).                                                     *)
(*                                                                         *)
(*  - the channel-list fetch: BotCLI.load_channels, _fetch_channels_impl,  *)
(*    refresh_channels_loop and app.py's get_all_public_channels;          *)
(*  - the per-channel message sync: handle_channel_selection,              *)
(*    load_messages, refresh_messages_loop, load_messages_impl with its    *)
(*    display_messages / show_join_button callbacks, join_channel and      *)
(*    return_to_channel_selection;                                         *)
(*  - the cache file as text: save_channels_cache writing json.dump's      *)
(*    pieces in place, load_channels_cache parsing them (SpecCache);       *)
(*  - user names: resolve_user_name called by several threads (SpecUsers); *)
(*  - sending: on_input_submitted and send_message (SpecSend);             *)
(*  - the translators of src/formatting.py, character by character         *)
(*    (SpecText, and SpecFormat for single tokens and texts);              *)
(*  - the threads of an open channel view that resolve user names:         *)
(*    load_channel_members, load_messages_impl and the display_messages    *)
(*    callback on the UI loop (SpecView);                                  *)
(*  - polling with ts strings of different lengths (SpecTs);               *)
(*  - sending while the operator leaves and reopens channels (SpecSwitch); *)
(*  - the channel selection screen: update_suggestions, the Up, Down, Tab  *)
(*    and Enter handlers, with the refresh loop running (SpecSuggest);     *)
(*  - the polling thread of a channel that stays watched, under weak       *)
(*    fairness (SpecLive), and the fetch thread of cli.py under weak       *)
(*    fairness (SpecPass).                                                 *)
(*                                                                         *)
(* Worker methods are decorated @work(exclusive=True, thread=True): each   *)
(* call runs the method body in a thread of its own.  The bodies never     *)
(* test the worker's cancellation flag, so a thread that was started runs  *)
(* to the end of its body whatever worker is started afterwards.           *)
(* A thread advances from one blocking call (network request, sleep) to    *)
(* the next; a call_from_thread callback runs on the UI loop, in one step  *)
(* unless it makes a network request itself.                               *)
(***************************************************************************)
EXTENDS Integers, Sequences, FiniteSets, TLC

\* ------------------------------------------------------------------ bounds
MaxPages == 3        \* pages of the remote channel list
MaxRetries == 2      \* rate-limited responses per fetch pass
NumChannels == 2     \* channels the operator can watch
MaxTs == 2           \* messages posted to the workspace in one run
MaxWorkers == 2      \* message threads alive at the same time
TsWidth == 2         \* digits of a ts string (Slack's ts have one fixed width)
MaxRetryAfter == 3   \* largest Retry-After value a rate-limited response carries
MaxSnapshot == 2     \* records of a channel list written to the cache file
MaxResolvers == 2    \* threads inside resolve_user_name at the same time
MaxPieces == 2       \* pieces an operator's text is put together from
MaxEntries == 2      \* entries of the user cache
MaxPosts == 4        \* messages posted while one channel stays watched (SpecLive)

\* ------------------------------------------------------- program constants
PageLimit == 2       \* limit=200 of conversations_list, scaled down
NoCursor == 0        \* Python None: cursor of the first request / absent next_cursor
EmptyCursor == -1    \* the empty string "" as next_cursor
HistoryLimit == 2    \* limit=100 of conversations_history, scaled down
NoChannel == 0       \* Python None as selected_channel_id
NoRetryAfter == 0    \* a rate-limited response without a Retry-After value
DefaultRetryAfter == 1   \* the default of .get("Retry-After", 1)
ExcSleep == 2        \* time.sleep(2) of the exception branch

VARIABLES
    \* ---- channel list (BotCLI fields, cache file, fetch thread)
    channels,            \* self.channels
    filtered_channels,   \* self.filtered_channels
    channels_loaded,     \* self.channels_loaded
    cache_file,          \* CHANNELS_CACHE_FILE: [exists, data]
    fc,                  \* the load_channels / refresh_channels_loop thread
    ga,                  \* app.py get_all_public_channels
    pages,               \* remote: the pages of the channel list
    lastCur,             \* remote: next_cursor sent with the last page
    status,              \* the #status_text widget: [text, type]
    reqLog,              \* requests of the current pass: [cursor, outcome]
    program,             \* the script that was started: "cli" (cli.py) or "app" (app.py)
    \* ---- message sync (BotCLI fields, widgets, worker threads)
    selected_channel_id, \* self.selected_channel_id
    last_message_ts,     \* self.last_message_ts, the watermark
    display,             \* the #message_container widgets of the open channel view
    thr,                 \* the message worker threads
    history,             \* remote: the messages of every channel, oldest first
    member,              \* remote: is the bot a member of the channel
    clock,               \* remote: messages posted so far (the ts source)
    \* ---- observation of the run (not program state)
    emitted,             \* messages written to the display during the current watch
    lastDisp,            \* the last call of display_messages
    wmSrc,               \* where the current watermark comes from
    lastSleep,           \* the last time.sleep of a rate-limit branch
    report,              \* the last completion of a fetch pass as the status reports it
    \* ---- the cache file as json.dump writes it (save_channels_cache piece by piece)
    disk,                \* CHANNELS_CACHE_FILE: [exists, text], text a sequence of JSON tokens
    saver,               \* the save_channels_cache call in progress, and the last one
    loadRes,             \* the last load_channels_cache call and what it returned
    \* ---- user names (BotCLI fields, the threads inside resolve_user_name)
    slack_app,           \* self.slack_app is set
    user_cache,          \* self.user_cache: a dict, user id -> name
    res,                 \* the calls of resolve_user_name in progress
    \* ---- sending (the message input, the send_message thread, the translators)
    cache_items,         \* self.user_cache.items(): the entries in the dict's order
    msg_input,           \* the value of the #message_input widget
    snd,                 \* the send_message thread
    outbox,              \* the last chat_postMessage call
    tr,                  \* the last translation of a mention, outbound and inbound
    \* ---- a translator of formatting.py applied to a text
    fmt,                 \* the last call: the function, its arguments and what it returned
    \* ---- which thread assigns the fields the UI loop works on
    wrote,               \* the assignments of the last step: [by, fields]
    \* ---- the open channel view: member list, authors and mentions of the messages
    channel_members,     \* self.channel_members: a dict, channel id -> member list
    mw,                  \* the load_channel_members thread
    lw,                  \* the load_messages_impl thread, after conversations_history
    ui,                  \* the UI loop inside display_messages
    mpages,              \* remote: the pages of the member list of the open channel
    net,                 \* the last network request: [api, thread]
    \* ---- the channel selection screen
    suggestion_labels,   \* self.suggestion_labels: the channel id of each ChannelLabel
    selected_index,      \* self.selected_index
    channel_input        \* the value of #channel_input

fetchVars == <<channels, filtered_channels, channels_loaded, cache_file, fc, ga,
               pages, lastCur, reqLog, program>>
syncVars == <<selected_channel_id, last_message_ts, display, thr, history, member,
              clock, emitted, lastDisp, wmSrc>>
vars == <<channels, filtered_channels, channels_loaded, cache_file, fc, ga,
          pages, lastCur, status, reqLog, program,
          selected_channel_id, last_message_ts, display, thr, history, member,
          clock, emitted, lastDisp, wmSrc, lastSleep, report,
          disk, saver, loadRes, slack_app, user_cache, res,
          cache_items, msg_input, snd, outbox, tr, fmt, wrote,
          channel_members, mw, lw, ui, mpages, net,
          suggestion_labels, selected_index, channel_input>>

fetchObs == <<lastSleep, report>>
\* what the message-sync actions leave alone beside fetchVars, and the
\* channel-list actions beside syncVars
diskVars == <<disk, saver, loadRes>>
userVars == <<slack_app, user_cache, res>>
textVars == <<cache_items, msg_input, snd, outbox, tr>>
formatVars == <<fmt>>
viewVars == <<channel_members, mw, lw, ui, mpages, net>>
suggestVars == <<suggestion_labels, selected_index, channel_input>>
outsideSync == <<fetchObs, diskVars, userVars, textVars, formatVars, wrote, viewVars,
                 suggestVars>>
outsideFetch == <<diskVars, userVars, textVars, formatVars, viewVars>>
\* what the cache-file actions leave alone
outsideCache == <<cache_file, fc, ga, pages, lastCur, reqLog, program, status,
                  syncVars, fetchObs, userVars, textVars, formatVars, wrote,
                  viewVars, suggestVars>>
\* what the calls of resolve_user_name leave alone
outsideUsers == <<fetchVars, status, syncVars, fetchObs, diskVars, textVars,
                  formatVars, wrote, viewVars, suggestVars>>
\* what sending and translating leave alone
outsideText == <<fetchVars, fetchObs, diskVars, userVars, cache_items,
                 selected_channel_id, last_message_ts, display, thr,
                 emitted, lastDisp, wmSrc, formatVars, wrote, viewVars,
                 suggestVars>>
\* what a call of a translator leaves alone
outsideFormat == <<fetchVars, status, syncVars, fetchObs, diskVars, userVars,
                   textVars, wrote, viewVars, suggestVars>>
\* what the threads of the open channel view leave alone
outsideView == <<fetchVars, status, syncVars, fetchObs, diskVars, slack_app, res,
                 textVars, formatVars, wrote, suggestVars>>
\* what typing and navigating on the channel selection screen leave alone
outsideSuggest == <<channels, channels_loaded, cache_file, fc, ga, pages, lastCur,
                    reqLog, program, status, syncVars, fetchObs, diskVars, userVars,
                    textVars, formatVars, wrote, viewVars>>

\* ------------------------------------------------------------- sequences
RECURSIVE Concat(_)
Concat(ss) == IF ss = <<>> THEN <<>> ELSE Head(ss) \o Concat(Tail(ss))

Take(s, n) == SubSeq(s, 1, IF Len(s) < n THEN Len(s) ELSE n)

RECURSIVE SumTo(_, _)
SumTo(f, k) == IF k = 0 THEN 0 ELSE f[k] + SumTo(f, k - 1)

\* the remote list: page k holds sizes[k] consecutively numbered channels
PagesOf(sizes) ==
    [k \in 1..Len(sizes) |->
        [i \in 1..sizes[k] |-> SumTo(sizes, k - 1) + i]]

PageConfigs ==
    UNION {[1..n -> 0..PageLimit] : n \in 1..MaxPages}

\* ------------------------------------------------- conversations_list
\* cursor None requests the first page, cursor k the k-th page
PageIndex(cursor) == IF cursor = NoCursor THEN 1 ELSE cursor

NextCursorOf(k) == IF k < Len(pages) THEN k + 1 ELSE lastCur

\* `not cursor or cursor == ""`
Falsy(cursor) == cursor = NoCursor \/ cursor = EmptyCursor

Outcomes == {"ok", "rl_result", "rl_exc", "err_result", "err_exc"}
\* (mutant: every failed request is taken for a rate limit and retried)
IsRateLimitAny(o) == o /= "ok"
\* error_msg == "ratelimited", or "ratelimited" / "rate limit" in str(e)
IsRateLimit(o) == o \in {"rl_result", "rl_exc"}
IsError(o) == o \in {"err_result", "err_exc"}

\* (mutant: the list is overwritten by the page instead of extended)
ExtendDrop(acc, batch) == batch
\* channels.extend(batch)
Extend(acc, batch) == acc \o batch

\* (mutant: the retry starts again from the first page)
OnRateLimitReset(cursor, acc) == [cursor |-> NoCursor, acc |-> acc]
\* the `continue` of the two rate-limit branches: cursor and channels kept
OnRateLimit(cursor, acc) == [cursor |-> cursor, acc |-> acc]

\* the Retry-After values a rate-limited response can carry
RetryAfters == {NoRetryAfter} \cup (1..MaxRetryAfter)

\* retry_after = int(result.get("headers", {}).get("Retry-After", 1))
RetryAfterOf(ra) == IF ra = NoRetryAfter THEN DefaultRetryAfter ELSE ra

\* the seconds slept before the `continue`: time.sleep(retry_after) when the
\* rate limit is a not-ok result, time.sleep(2) when it is an exception
SleepFor(o, ra) == IF o = "rl_result" THEN RetryAfterOf(ra) ELSE ExcSleep

NoSleep == [set |-> FALSE, outcome |-> "none", retry_after |-> NoRetryAfter,
            slept |-> 0]

\* the count in the "Loaded {len(channels)}" / "Updated {len(channels)}" message
ReportedCount(new) == Len(new)

NoReport == [set |-> FALSE, old_count |-> 0, new_count |-> 0, shown |-> 0,
             result |-> <<>>]

Status(text, type) == [text |-> text, type |-> type]

NoFetch == [pc |-> "idle", cursor |-> NoCursor, acc |-> <<>>, page_count |-> 0]

\* load_channels_cache
CacheLoads == cache_file.exists

CacheFile(exists, data) == [exists |-> exists, data |-> data]

\* ------------------------------------------------------------ ts strings
Channels == 1..NumChannels
Threads == 1..MaxWorkers

\* Python None as last_message_ts; a ts itself is a non-empty digit string
NoTs == <<>>

RECURSIVE Pow10(_)
Pow10(k) == IF k = 0 THEN 1 ELSE 10 * Pow10(k - 1)

\* the ts string the service gives its n-th message: n in TsWidth digits
TsStr(n) == [i \in 1..TsWidth |-> (n \div Pow10(TsWidth - i)) % 10]

\* the numeric value of a decimal string
RECURSIVE TsNum(_)
TsNum(str) ==
    IF str = <<>> THEN 0 ELSE 10 * TsNum(SubSeq(str, 1, Len(str) - 1)) + str[Len(str)]

\* Python's a > b on strings: by the first differing character, a proper
\* prefix being the smaller
RECURSIVE StrGreater(_, _)
StrGreater(a, b) ==
    IF a = <<>> THEN FALSE
    ELSE IF b = <<>> THEN TRUE
    ELSE IF Head(a) /= Head(b) THEN Head(a) > Head(b)
    ELSE StrGreater(Tail(a), Tail(b))

Reverse(seq) == [i \in 1..Len(seq) |-> seq[Len(seq) + 1 - i]]

\* conversations_history(channel, limit): the newest messages, newest first
Latest(h) ==
    Reverse(SubSeq(h, IF Len(h) > HistoryLimit THEN Len(h) - HistoryLimit + 1 ELSE 1,
                   Len(h)))

\* ------------------------------------------------- display_messages
\* (mutant: >= in place of >)
IsNewOrSame(ts, wm) == ts /= NoTs /\ ~StrGreater(wm, ts)
\* `msg_ts and msg_ts > self.last_message_ts`
IsNew(ts, wm) == ts /= NoTs /\ StrGreater(ts, wm)

\* the else branch, `for msg in reversed(messages)`: ms is oldest first
RECURSIVE AppendNew(_, _, _)
AppendNew(ms, wm, out) ==
    IF ms = <<>> THEN [out |-> out, wm |-> wm]
    ELSE IF IsNew(Head(ms).ts, wm)
           THEN AppendNew(Tail(ms), Head(ms).ts, Append(out, Head(ms)))
           ELSE AppendNew(Tail(ms), wm, out)

\* (mutant: the watermark is taken from the oldest message)
InitialWatermarkOldest(messages) == messages[Len(messages)].ts
\* the initial branch sets the watermark to messages[0]
InitialWatermark(messages) == messages[1].ts

\* what display_messages writes and the watermark it leaves, for the fetched
\* messages (newest first) and the watermark wm
DisplayMessages(messages, wm) ==
    IF wm = NoTs
      THEN IF messages = <<>>
             THEN [clear |-> TRUE, out |-> <<>>, wm |-> NoTs]
             ELSE [clear |-> TRUE, out |-> Reverse(messages),
                   wm |-> InitialWatermark(messages)]
      ELSE LET r == AppendNew(Reverse(messages), wm, <<>>)
           IN  [clear |-> FALSE, out |-> r.out, wm |-> r.wm]

\* ------------------------------------------------------ widgets, threads
NoView == [mounted |-> FALSE, lines |-> <<>>, notice |-> "", join |-> FALSE,
           input |-> FALSE]
NewView == [mounted |-> TRUE, lines |-> <<>>, notice |-> "", join |-> FALSE,
            input |-> TRUE]

NoThread == [kind |-> "none", chan |-> NoChannel, pc |-> "none", res |-> "none",
             msgs |-> <<>>, old |-> FALSE, stale |-> FALSE]

NewThread(kind, chan, pc) == [NoThread EXCEPT !.kind = kind, !.chan = chan, !.pc = pc]

Free == {t \in Threads : thr[t].kind = "none"}
FirstFree == CHOOSE t \in Free : \A u \in Free : t <= u

\* the thread after load_messages_impl returned: load_messages starts
\* refresh_messages_loop, the loop sleeps and tests its condition, join_channel ends
AfterImpl(r) ==
    IF r.kind = "join" THEN NoThread
    ELSE [r EXCEPT !.kind = "loop", !.pc = "guard", !.res = "none", !.msgs = <<>>,
                   !.stale = FALSE]

\* `while self.selected_channel_id == channel_id`
LoopGuard(r) == selected_channel_id = r.chan

NoDisp == [kind |-> "none", chan |-> NoChannel, old |-> FALSE, stale |-> FALSE,
           mounted |-> FALSE, before |-> NoTs, msgs |-> <<>>, out |-> <<>>,
           after |-> NoTs]
NoSrc == [set |-> FALSE, ch |-> NoChannel, stale |-> FALSE]

RECURSIVE ChunkSizes(_)
ChunkSizes(n) ==
    IF n <= PageLimit THEN <<n>> ELSE <<PageLimit>> \o ChunkSizes(n - PageLimit)

\* ------------------------------------------------- the cache file as text
\* the channel lists a fetch pass can publish
Snapshots == UNION {[1..n -> Channels] : n \in 0..MaxSnapshot}

Tok(k, v) == [k |-> k, v |-> v]

RECURSIVE DumpItems(_)
DumpItems(S) ==
    IF Len(S) = 1 THEN <<Tok("item", S[1])>>
    ELSE <<Tok("item", S[1]), Tok(",", 0)>> \o DumpItems(Tail(S))

\* (mutant: an empty list writes nothing)
JsonDumpNoEmpty(S) ==
    IF S = <<>> THEN <<>> ELSE <<Tok("[", 0)>> \o DumpItems(S) \o <<Tok("]", 0)>>
\* json.dump(self.channels, f, indent=2): the pieces written, in order
JsonDump(S) ==
    IF S = <<>> THEN <<Tok("[]", 0)>>
    ELSE <<Tok("[", 0)>> \o DumpItems(S) \o <<Tok("]", 0)>>

ParseFail == [ok |-> FALSE, data |-> <<>>]
ParseOk(data) == [ok |-> TRUE, data |-> data]

\* the elements of an array after its "[": item ("," item)* "]"
RECURSIVE ParseItems(_, _)
ParseItems(toks, acc) ==
    IF Len(toks) < 2 \/ toks[1].k /= "item" THEN ParseFail
    ELSE IF toks[2].k = "]"
           THEN IF Len(toks) = 2 THEN ParseOk(Append(acc, toks[1].v)) ELSE ParseFail
    ELSE IF toks[2].k = ","
           THEN ParseItems(SubSeq(toks, 3, Len(toks)), Append(acc, toks[1].v))
    ELSE ParseFail

\* json.load(f): the list, or the exception of a text that is not one document
JsonLoad(toks) ==
    IF toks = <<Tok("[]", 0)>> THEN ParseOk(<<>>)
    ELSE IF toks /= <<>> /\ toks[1].k = "[" THEN ParseItems(Tail(toks), <<>>)
    ELSE ParseFail

NoFile == [exists |-> FALSE, text |-> <<>>]
NoSave == [pc |-> "idle", todo |-> <<>>, state |-> "none", hadOld |-> FALSE,
           old |-> <<>>, new |-> <<>>]
NoLoad == [set |-> FALSE, who |-> "none", ok |-> FALSE, data |-> <<>>,
           restarted |-> FALSE]

\* ------------------------------------------------------------ user names
\* a Python str is the tuple of its characters; "" is <<>>
Users == {<<"U", "1">>, <<"U", "2">>}
Resolvers == 1..MaxResolvers

EmptyDict == [k \in {} |-> <<>>]
\* d[key] = value
DictSet(d, key, value) ==
    [k \in DOMAIN d \cup {key} |-> IF k = key THEN value ELSE d[k]]

\* the "user" objects of a users_info response: every name field is present
\* with some text, or missing or empty (<<>>)
UserRecords ==
    [real_name : {<<>>, <<"r">>}, profile_real_name : {<<>>, <<"p">>},
     profile_display_name : {<<>>, <<"d">>}, name : {<<>>, <<"n">>}]
NoRecord == [real_name |-> <<>>, profile_real_name |-> <<>>,
             profile_display_name |-> <<>>, name |-> <<>>]

\* (mutant: the chain without its last `or user_id`)
DisplayNameNoFallback(user, user_id) ==
    IF user.real_name /= <<>> THEN user.real_name
    ELSE IF user.profile_real_name /= <<>> THEN user.profile_real_name
    ELSE IF user.profile_display_name /= <<>> THEN user.profile_display_name
    ELSE user.name
\* real_name or profile.real_name or profile.display_name or name or user_id
DisplayName(user, user_id) ==
    IF user.real_name /= <<>> THEN user.real_name
    ELSE IF user.profile_real_name /= <<>> THEN user.profile_real_name
    ELSE IF user.profile_display_name /= <<>> THEN user.profile_display_name
    ELSE IF user.name /= <<>> THEN user.name
    ELSE user_id

\* what resolve_user_name caches and returns for the answer o of users_info
Resolved(o, user, user_id) == IF o = "ok" THEN DisplayName(user, user_id) ELSE user_id

NoCall == [pc |-> "idle", user |-> <<>>, ret |-> <<>>, net |-> FALSE, o |-> "none",
           rec |-> NoRecord, hit |-> FALSE, cached |-> <<>>]

\* ------------------------------------------------------- text, regexes
\* (a str is the tuple of its characters)
LowerCase == <<"a", "b", "c", "d", "e", "f", "g", "h", "i", "j", "k", "l", "m",
               "n", "o", "p", "q", "r", "s", "t", "u", "v", "w", "x", "y", "z">>
UpperCase == <<"A", "B", "C", "D", "E", "F", "G", "H", "I", "J", "K", "L", "M",
               "N", "O", "P", "Q", "R", "S", "T", "U", "V", "W", "X", "Y", "Z">>
Digits == {"0", "1", "2", "3", "4", "5", "6", "7", "8", "9"}
Range(seq) == {seq[i] : i \in 1..Len(seq)}

\* \s
Whitespace == {" ", "\n", "\t"}
\* [a-zA-Z0-9_.-]
NameChars == Range(LowerCase) \cup Range(UpperCase) \cup Digits \cup {"_", ".", "-"}
\* [A-Z0-9]
IdChars == Range(UpperCase) \cup Digits

\* str.lower()
LowerChar(c) ==
    IF c \in Range(UpperCase)
      THEN LowerCase[CHOOSE i \in 1..Len(UpperCase) : UpperCase[i] = c]
      ELSE c
Lower(str) == [i \in 1..Len(str) |-> LowerChar(str[i])]

Drop(str, n) == SubSeq(str, n + 1, Len(str))
StartsWith(str, lit) == Len(str) >= Len(lit) /\ SubSeq(str, 1, Len(lit)) = lit

\* the longest prefix matched by [...]+ / [...]*, for a class and for a negated class
RECURSIVE RunIn(_, _)
RunIn(str, class) ==
    IF str /= <<>> /\ Head(str) \in class THEN 1 + RunIn(Tail(str), class) ELSE 0
RECURSIVE RunNotIn(_, _)
RunNotIn(str, excluded) ==
    IF str /= <<>> /\ Head(str) \notin excluded
      THEN 1 + RunNotIn(Tail(str), excluded) ELSE 0

\* str.strip()
RECURSIVE LStrip(_)
LStrip(str) == IF str /= <<>> /\ Head(str) \in Whitespace THEN LStrip(Tail(str)) ELSE str
Strip(str) == Reverse(LStrip(Reverse(LStrip(str))))

NoMatch == [len |-> 0, repl |-> <<>>]
Matched(len, repl) == [len |-> len, repl |-> repl]

\* https?://  at the start of str: its length, 0 if absent
SchemeLen(str) ==
    IF StartsWith(str, <<"h", "t", "t", "p", "s", ":", "/", "/">>) THEN 8
    ELSE IF StartsWith(str, <<"h", "t", "t", "p", ":", "/", "/">>) THEN 7
    ELSE 0

\* ------------------------------------------- formatting.py, outbound
\* \[([^\]]+)\]\(([^)]+)\)  ->  <\2|\1>
MatchMarkdownLink(str) ==
    IF str = <<>> \/ Head(str) /= "[" THEN NoMatch
    ELSE LET n1 == RunNotIn(Tail(str), {"]"})
             rest == Drop(str, 1 + n1)
         IN  IF n1 = 0 \/ ~StartsWith(rest, <<"]", "(">>) THEN NoMatch
             ELSE LET n2 == RunNotIn(Drop(rest, 2), {")"})
                      tail == Drop(rest, 2 + n2)
                  IN  IF n2 = 0 \/ tail = <<>> THEN NoMatch
                      ELSE Matched(4 + n1 + n2,
                                   <<"<">> \o SubSeq(rest, 3, 2 + n2) \o <<"|">>
                                     \o SubSeq(str, 2, 1 + n1) \o <<">">>)

\* (?<![<\[])(https?://[^\s>]+)  ->  <\1>
MatchBareUrl(str, prev) ==
    IF prev \in {"<", "["} \/ SchemeLen(str) = 0 THEN NoMatch
    ELSE LET n == RunNotIn(Drop(str, SchemeLen(str)), Whitespace \cup {">"})
         IN  IF n = 0 THEN NoMatch
             ELSE Matched(SchemeLen(str) + n,
                          <<"<">> \o SubSeq(str, 1, SchemeLen(str) + n) \o <<">">>)

\* reverse_map = {name.lower(): uid for uid, name in user_name_map.items()}
\* and reverse_map.get(username): items is user_name_map.items(), in the
\* dict's order; a later item replaces an earlier one with the same key
RECURSIVE ReverseGet(_, _)
ReverseGet(items, username) ==
    IF items = <<>> THEN <<>>
    ELSE IF Lower(items[Len(items)].name) = username THEN items[Len(items)].id
    ELSE ReverseGet(SubSeq(items, 1, Len(items) - 1), username)

\* (mutant: the looked-up name keeps its case)
ReplaceMentionCased(name, items) ==
    IF ReverseGet(items, name) /= <<>>
      THEN <<"<", "@">> \o ReverseGet(items, name) \o <<">">>
      ELSE <<"@">> \o name
\* replace_mention of resolve_mentions_in_message
ReplaceMention(name, items) ==
    IF ReverseGet(items, Lower(name)) /= <<>>
      THEN <<"<", "@">> \o ReverseGet(items, Lower(name)) \o <<">">>
      ELSE <<"@">> \o name

\* @([a-zA-Z0-9_.-]+)
MatchAtName(str, items) ==
    IF str = <<>> \/ Head(str) /= "@" THEN NoMatch
    ELSE LET n == RunIn(Tail(str), NameChars)
         IN  IF n = 0 THEN NoMatch
             ELSE Matched(1 + n, ReplaceMention(SubSeq(str, 2, 1 + n), items))

\* -------------------------------------------- formatting.py, inbound
\* dict.get(key, default)
DictGet(d, key, default) == IF key \in DOMAIN d THEN d[key] ELSE default

Tag(name) == <<"[">> \o name \o <<"]">>
EndTag(name) == <<"[", "/">> \o name \o <<"]">>
Blue == <<"b", "l", "u", "e">>
Yellow == <<"y", "e", "l", "l", "o", "w">>

\* f'[link="{url}"][blue]{label}[/blue][/link]'
LinkMarkup(url, label) ==
    <<"[", "l", "i", "n", "k", "=", "\"">> \o url \o <<"\"", "]">> \o Tag(Blue)
      \o label \o EndTag(Blue) \o EndTag(<<"l", "i", "n", "k">>)

\* f'[yellow]@{user_name}[/yellow]'
MentionMarkup(user_name) == Tag(Yellow) \o <<"@">> \o user_name \o EndTag(Yellow)

\* <([^|>]+)\|([^>]+)>
MatchLinkWithLabel(str) ==
    IF str = <<>> \/ Head(str) /= "<" THEN NoMatch
    ELSE LET n1 == RunNotIn(Tail(str), {"|", ">"})
             rest == Drop(str, 1 + n1)
         IN  IF n1 = 0 \/ rest = <<>> \/ Head(rest) /= "|" THEN NoMatch
             ELSE LET n2 == RunNotIn(Tail(rest), {">"})
                  IN  IF n2 = 0 \/ Len(rest) < 2 + n2 THEN NoMatch
                      ELSE Matched(3 + n1 + n2,
                                   LinkMarkup(SubSeq(str, 2, 1 + n1),
                                              SubSeq(rest, 2, 1 + n2)))

\* <(https?://[^>]+)>
MatchLink(str) ==
    IF str = <<>> \/ Head(str) /= "<" \/ SchemeLen(Tail(str)) = 0 THEN NoMatch
    ELSE LET k == SchemeLen(Tail(str))
             n == RunNotIn(Drop(str, 1 + k), {">"})
         IN  IF n = 0 \/ Len(str) < 2 + k + n THEN NoMatch
             ELSE Matched(2 + k + n,
                          LinkMarkup(SubSeq(str, 2, 1 + k + n),
                                     SubSeq(str, 2, 1 + k + n)))

\* <@([A-Z0-9]+)>
MatchUserMention(str, user_cache_) ==
    IF ~StartsWith(str, <<"<", "@">>) THEN NoMatch
    ELSE LET n == RunIn(Drop(str, 2), IdChars)
         IN  IF n = 0 \/ Len(str) < 3 + n \/ str[3 + n] /= ">" THEN NoMatch
             ELSE Matched(3 + n,
                          MentionMarkup(DictGet(user_cache_, SubSeq(str, 3, 2 + n),
                                                SubSeq(str, 3, 2 + n))))

\* <#([A-Z0-9]+)\|([^>]*)>
MatchChannelMention(str, channel_cache) ==
    IF ~StartsWith(str, <<"<", "#">>) THEN NoMatch
    ELSE LET n1 == RunIn(Drop(str, 2), IdChars)
         IN  IF n1 = 0 \/ Len(str) < 3 + n1 \/ str[3 + n1] /= "|" THEN NoMatch
             ELSE LET n2 == RunNotIn(Drop(str, 3 + n1), {">"})
                      id == SubSeq(str, 3, 2 + n1)
                      label == SubSeq(str, 4 + n1, 3 + n1 + n2)
                  IN  IF Len(str) < 4 + n1 + n2 THEN NoMatch
                      ELSE Matched(4 + n1 + n2,
                                   <<"#">> \o (IF label /= <<>> THEN label
                                               ELSE DictGet(channel_cache, id, id)))

\* d(\S.*?\S|\S)d for a delimiter d  ->  [tag]\1[/tag]
MatchEmphasis(str, d, tag) ==
    IF Len(str) < 3 \/ str[1] /= d \/ str[2] \in Whitespace THEN NoMatch
    ELSE LET ends == {j \in 4..Len(str) :
                        /\ str[j] = d
                        /\ str[j - 1] \notin Whitespace
                        /\ \A k \in 3..(j - 2) : str[k] /= "\n"}
         IN  IF ends /= {}
               THEN LET j == CHOOSE x \in ends : \A y \in ends : x <= y
                    IN  Matched(j, Tag(tag) \o SubSeq(str, 2, j - 1) \o EndTag(tag))
             ELSE IF str[3] = d
               THEN Matched(3, Tag(tag) \o <<str[2]>> \o EndTag(tag))
             ELSE NoMatch

\* the match of one substitution rule at the start of str; prev is the
\* character before it, env the dicts the replacement function reads
Match(rule, str, prev, env) ==
    CASE rule = "markdown_link" -> MatchMarkdownLink(str)
      [] rule = "bare_url" -> MatchBareUrl(str, prev)
      [] rule = "at_name" -> MatchAtName(str, env.items)
      [] rule = "link_with_label" -> MatchLinkWithLabel(str)
      [] rule = "link" -> MatchLink(str)
      [] rule = "user_mention" -> MatchUserMention(str, env.users)
      [] rule = "channel_mention" -> MatchChannelMention(str, env.chans)
      [] rule = "bold" -> MatchEmphasis(str, "*", <<"b", "o", "l", "d">>)
      [] rule = "italic" -> MatchEmphasis(str, "_", <<"i", "t", "a", "l", "i", "c">>)
      [] rule = "strike" -> MatchEmphasis(str, "~", <<"s", "t", "r", "i", "k", "e">>)

\* re.sub(rule, replacement, str): leftmost matches, left to right, not overlapping
RECURSIVE ReSub(_, _, _, _)
ReSub(rule, str, prev, env) ==
    IF str = <<>> THEN <<>>
    ELSE LET m == Match(rule, str, prev, env)
         IN  IF m.len > 0
               THEN m.repl \o ReSub(rule, Drop(str, m.len), str[m.len], env)
               ELSE <<Head(str)>> \o ReSub(rule, Tail(str), Head(str), env)

NoEnv == [items |-> <<>>, users |-> EmptyDict, chans |-> EmptyDict]

\* parse_slack_formatting(text, user_cache, channel_cache)
ParseSlackFormatting(text, user_cache_, channel_cache) ==
    LET env == [items |-> <<>>, users |-> user_cache_, chans |-> channel_cache]
        t1 == ReSub("link_with_label", text, "", env)
        t2 == ReSub("link", t1, "", env)
        t3 == ReSub("user_mention", t2, "", env)
        t4 == ReSub("channel_mention", t3, "", env)
        t5 == ReSub("bold", t4, "", env)
        t6 == ReSub("italic", t5, "", env)
    IN  ReSub("strike", t6, "", env)

\* format_user_input(text)
FormatUserInput(text) ==
    ReSub("bare_url", ReSub("markdown_link", text, "", NoEnv), "", NoEnv)

\* resolve_mentions_in_message(text, user_name_map)
ResolveMentionsInMessage(text, items) ==
    ReSub("at_name", text, "", [NoEnv EXCEPT !.items = items])

\* ---------------------------------------------------------- sending
\* the names the user cache can hold: a short name, a name in capitals, a
\* real name of two words, a name with underscores
CachedNames == {<<"a">>, <<"A">>, <<"a", " ", "b">>, <<"_", "a", "_">>}

\* self.user_cache.items(): the entries in the dict's order, every id once
CacheItems ==
    {items \in UNION {[1..n -> [id : Users, name : CachedNames]] : n \in 0..MaxEntries} :
        \A i, j \in 1..Len(items) : i /= j => items[i].id /= items[j].id}

\* dict(items)
DictOf(items) ==
    [k \in {items[i].id : i \in 1..Len(items)} |->
        items[CHOOSE i \in 1..Len(items) : items[i].id = k].name]

Hi == <<" ", "h", "i">>
MarkdownLinkText == <<"[", "l", "]", "(", "h", "t", "t", "p", ":", "/", "/", "x", ")">>
UrlText == <<"h", "t", "t", "p", ":", "/", "/", "x">>

\* what the operator types into #message_input
Pieces ==
    {<<" ">>, <<"h", "i">>, MarkdownLinkText, UrlText}
      \cup {<<"@">> \o n : n \in CachedNames}
Submissions == {Concat(ps) : ps \in UNION {[1..n -> Pieces] : n \in 0..MaxPieces}}

\* chan: the channel that was selected when the message was submitted
NoSend == [pc |-> "idle", message |-> <<>>, res |-> "none", chan |-> NoChannel]
NoPost == [set |-> FALSE, submitted |-> <<>>, channel |-> NoChannel, text |-> <<>>]
NoTranslation == [set |-> FALSE, id |-> <<>>, name |-> <<>>, out |-> <<>>, inb |-> <<>>]

\* no translator was called yet
NoFormat == [fn |-> "none", text |-> <<>>, out |-> <<>>]

\* ------------------------------------------- the open channel view
\* load_channel_members is not running
NoMembers == [pc |-> "idle", chan |-> NoChannel, cursor |-> NoCursor, members |-> <<>>,
              k |-> 0, list |-> <<>>, log |-> <<>>]
\* load_messages_impl has no conversations_history result
NoMessages == [pc |-> "idle", messages |-> <<>>, todo |-> {}, cur |-> <<>>]
\* the UI loop is not inside display_messages
NoRender == [pc |-> "idle", k |-> 0]
\* no network request was made
NoRequest == [api |-> "none", thread |-> "none"]
Request(api, thread) == [api |-> api, thread |-> thread]

\* a step that assigns none of channels, filtered_channels, channels_loaded
NoWrite == [by |-> "none", fields |-> {}]
\* the body of a worker thread assigns the fields itself, outside call_from_thread
WorkerWrote(fields) == [by |-> "worker", fields |-> fields]

\* ------------------------------------------------------------------ Init
InitFetchState ==
    /\ channels = <<>>
    /\ filtered_channels = <<>>
    /\ channels_loaded = FALSE
    /\ fc = NoFetch
    /\ ga = [pc |-> "run", cursor |-> NoCursor, acc |-> <<>>, log |-> <<>>,
             err |-> FALSE, result |-> <<>>]
    /\ status = Status("initialized", "success")
    /\ reqLog = <<>>
    /\ lastSleep = NoSleep
    /\ report = NoReport
    /\ saver = NoSave
    /\ loadRes = NoLoad
    /\ res = [r \in Resolvers |-> NoCall]
    /\ msg_input = <<>>
    /\ snd = NoSend
    /\ outbox = NoPost
    /\ tr = NoTranslation
    /\ fmt = NoFormat
    /\ wrote = NoWrite
    /\ channel_members = EmptyDict
    /\ mw = NoMembers
    /\ lw = NoMessages
    /\ ui = NoRender
    /\ net = NoRequest
    /\ suggestion_labels = <<>>
    /\ selected_index = 0
    /\ channel_input = <<>>

InitSyncState ==
    /\ selected_channel_id = NoChannel
    /\ last_message_ts = NoTs
    /\ display = NoView
    /\ thr = [t \in Threads |-> NoThread]
    /\ history = [c \in Channels |-> <<>>]
    /\ clock = 0
    /\ emitted = <<>>
    /\ lastDisp = NoDisp
    /\ wmSrc = NoSrc

InitFetch ==
    /\ InitFetchState
    /\ mpages = <<>>
    /\ disk = NoFile
    /\ slack_app = TRUE
    /\ user_cache = EmptyDict
    /\ cache_items = <<>>
    /\ InitSyncState
    /\ member = [c \in Channels |-> FALSE]
    /\ program \in {"cli", "app"}
    /\ \E sizes \in PageConfigs : pages = PagesOf(sizes)
    /\ lastCur \in {NoCursor, EmptyCursor}
    /\ \E snap \in {"absent", "empty", "full"} :
          cache_file = IF snap = "absent" THEN CacheFile(FALSE, <<>>)
                       ELSE IF snap = "empty" THEN CacheFile(TRUE, <<>>)
                       ELSE CacheFile(TRUE, Concat(pages))

\* ------------------------------------------------ BotCLI.load_channels
LoadChannels ==
    /\ UNCHANGED <<syncVars, outsideFetch>>
    /\ program = "cli"
    /\ fc.pc = "idle"
    /\ IF CacheLoads
         THEN /\ channels' = cache_file.data
              /\ filtered_channels' = Take(cache_file.data, 20)
              /\ channels_loaded' = TRUE
              /\ status' = Status("loaded from cache", "success")
              /\ suggestion_labels' = Take(Take(cache_file.data, 20), 50)
              /\ selected_index' = 0
              /\ UNCHANGED channel_input
         ELSE /\ status' = Status("Loading channels...", "loading")
              /\ UNCHANGED <<channels, filtered_channels, channels_loaded>>
              /\ UNCHANGED suggestVars
    /\ fc' = [pc |-> "fetch", cursor |-> NoCursor, acc |-> <<>>, page_count |-> 0]
    /\ reqLog' = <<>>
    /\ lastSleep' = NoSleep
    /\ report' = NoReport
    /\ wrote' = IF CacheLoads
                  THEN WorkerWrote({"channels", "filtered_channels", "channels_loaded"})
                  ELSE NoWrite
    /\ UNCHANGED <<cache_file, ga, pages, lastCur, program>>

\* one turn of the `while True` of _fetch_channels_impl
FetchPage(o, ra) ==
    /\ UNCHANGED <<syncVars, outsideFetch, suggestVars>>
    /\ fc.pc = "fetch"
    /\ ra \in RetryAfters
    /\ ~IsRateLimit(o) => ra = NoRetryAfter
    /\ lastSleep' = IF IsRateLimit(o)
                      THEN [set |-> TRUE, outcome |-> o, retry_after |-> ra,
                            slept |-> SleepFor(o, ra)]
                      ELSE NoSleep
    /\ UNCHANGED report
    /\ wrote' = NoWrite
    /\ IsRateLimit(o) =>
          Cardinality({i \in 1..Len(reqLog) : IsRateLimit(reqLog[i].outcome)}) < MaxRetries
    /\ reqLog' = Append(reqLog, [cursor |-> fc.cursor, outcome |-> o])
    /\ IF o = "ok"
         THEN LET k == PageIndex(fc.cursor)
                  acc == Extend(fc.acc, pages[k])
                  cnt == fc.page_count + 1
                  nxt == NextCursorOf(k)
              IN  /\ fc' = [pc |-> IF Falsy(nxt) THEN "finish" ELSE "fetch",
                            cursor |-> nxt, acc |-> acc, page_count |-> cnt]
                  /\ status' = IF ~channels_loaded /\ cnt % 10 = 0
                                 THEN Status("Loading channels...", "loading")
                                 ELSE status
         ELSE IF IsRateLimit(o)
         THEN LET r == OnRateLimit(fc.cursor, fc.acc)
              IN  /\ fc' = [fc EXCEPT !.cursor = r.cursor, !.acc = r.acc]
                  /\ status' = IF ~channels_loaded
                                 THEN Status("Rate limited", "loading")
                                 ELSE status
         ELSE /\ fc' = [fc EXCEPT !.pc = "finish"]
              /\ status' = IF ~channels_loaded
                             THEN Status("Error fetching channels", "error")
                             ELSE status
    /\ UNCHANGED <<channels, filtered_channels, channels_loaded, cache_file, ga,
                   pages, lastCur, program>>

\* after the loop: publish the list, save the cache, report
FetchFinish ==
    /\ UNCHANGED <<syncVars, outsideFetch>>
    /\ fc.pc = "finish"
    /\ channels' = fc.acc
    /\ cache_file' = CacheFile(TRUE, fc.acc)
    /\ IF ~channels_loaded
         THEN /\ channels_loaded' = TRUE
              /\ status' = Status("Loaded", "success")
              /\ filtered_channels' = Take(fc.acc, 20)
              /\ suggestion_labels' = Take(Take(fc.acc, 20), 50)
              /\ selected_index' = 0
              /\ UNCHANGED channel_input
         ELSE /\ status' = Status("Updated", "success")
              /\ filtered_channels' = fc.acc
              /\ UNCHANGED channels_loaded
              /\ UNCHANGED suggestVars
    /\ fc' = [fc EXCEPT !.pc = "sleep"]
    /\ report' = [set |-> TRUE, old_count |-> Len(channels),
                  new_count |-> Len(fc.acc), shown |-> ReportedCount(fc.acc),
                  result |-> fc.acc]
    /\ wrote' = WorkerWrote({"channels", "filtered_channels"}
                              \cup IF ~channels_loaded THEN {"channels_loaded"} ELSE {})
    /\ lastSleep' = NoSleep
    /\ UNCHANGED <<ga, pages, lastCur, reqLog, program>>

\* refresh_channels_loop: sleep(30), then the next pass
RefreshWake ==
    /\ UNCHANGED <<syncVars, outsideFetch, suggestVars>>
    /\ fc.pc = "sleep"
    /\ channels_loaded
    /\ fc' = [pc |-> "fetch", cursor |-> NoCursor, acc |-> <<>>, page_count |-> 0]
    /\ reqLog' = <<>>
    /\ lastSleep' = NoSleep
    /\ report' = NoReport
    /\ wrote' = NoWrite
    /\ UNCHANGED <<channels, filtered_channels, channels_loaded, cache_file, ga,
                   pages, lastCur, status, program>>

\* ------------------------------------- app.py get_all_public_channels
GetAllPublicChannels(o) ==
    /\ UNCHANGED <<syncVars, outsideFetch, suggestVars>>
    /\ program = "app"
    /\ ga.pc = "run"
    /\ o \in {"ok", "err_result", "err_exc"}
    /\ IF o = "ok"
         THEN LET k == PageIndex(ga.cursor)
                  nxt == NextCursorOf(k)
              IN  ga' = [ga EXCEPT !.acc = Extend(ga.acc, pages[k]),
                                   !.cursor = nxt,
                                   !.log = Append(ga.log, ga.cursor),
                                   !.pc = IF Falsy(nxt) THEN "done" ELSE "run",
                                   !.result = IF Falsy(nxt)
                                                THEN Extend(ga.acc, pages[k])
                                                ELSE <<>>]
         ELSE ga' = [ga EXCEPT !.pc = "done", !.err = TRUE, !.result = ga.acc,
                               !.log = Append(ga.log, ga.cursor)]
    /\ UNCHANGED <<channels, filtered_channels, channels_loaded, cache_file, fc,
                   pages, lastCur, status, reqLog, program, fetchObs, wrote>>

\* ===================================================== message sync
\* the state in which the operator watches channels: the channel list is
\* loaded and the refresh loop sleeps
Init ==
    /\ InitSyncState
    /\ member \in [Channels -> BOOLEAN]
    /\ program = "cli"
    /\ pages = PagesOf(ChunkSizes(NumChannels))
    /\ lastCur = EmptyCursor
    /\ channels = Concat(pages)
    /\ filtered_channels = Take(Concat(pages), 20)
    /\ channels_loaded = TRUE
    /\ cache_file = CacheFile(TRUE, Concat(pages))
    /\ fc = [NoFetch EXCEPT !.pc = "sleep", !.acc = Concat(pages)]
    /\ ga = [pc |-> "run", cursor |-> NoCursor, acc |-> <<>>, log |-> <<>>,
             err |-> FALSE, result |-> <<>>]
    /\ status = Status("Updated", "success")
    /\ reqLog = <<>>
    /\ lastSleep = NoSleep
    /\ report = NoReport
    /\ disk = NoFile
    /\ saver = NoSave
    /\ loadRes = NoLoad
    /\ slack_app = TRUE
    /\ user_cache = EmptyDict
    /\ cache_items = <<>>
    /\ res = [r \in Resolvers |-> NoCall]
    /\ msg_input = <<>>
    /\ snd = NoSend
    /\ outbox = NoPost
    /\ tr = NoTranslation
    /\ fmt = NoFormat
    /\ wrote = NoWrite
    /\ channel_members = EmptyDict
    /\ mw = NoMembers
    /\ lw = NoMessages
    /\ ui = NoRender
    /\ mpages = <<>>
    /\ net = NoRequest
    /\ suggestion_labels = Take(Take(Concat(pages), 20), 50)
    /\ selected_index = 0
    /\ channel_input = <<>>

\* handle_channel_selection: open the channel view, start load_messages
HandleChannelSelection(c) ==
    /\ selected_channel_id = NoChannel
    /\ Free /= {}
    /\ selected_channel_id' = c
    /\ display' = NewView
    /\ thr' = [thr EXCEPT ![FirstFree] = NewThread("load", c, "info")]
    /\ status' = Status("Ready to send", "success")
    /\ emitted' = <<>>
    /\ lastDisp' = NoDisp
    /\ UNCHANGED <<last_message_ts, history, member, clock, wmSrc>>
    /\ UNCHANGED <<fetchVars, outsideSync>>

\* return_to_channel_selection (the back button)
ReturnToChannelSelection ==
    /\ display.mounted
    /\ selected_channel_id' = NoChannel
    /\ last_message_ts' = NoTs
    /\ display' = NoView
    /\ status' = Status("Select a channel", "success")
    /\ thr' = [t \in Threads |->
                 IF thr[t].kind = "none" THEN thr[t]
                 ELSE [thr[t] EXCEPT !.old = TRUE,
                                     !.stale = @ \/ thr[t].pc \in {"info_ret", "hist_ret"}]]
    /\ emitted' = <<>>
    /\ lastDisp' = NoDisp
    /\ wmSrc' = NoSrc
    /\ UNCHANGED <<history, member, clock>>
    /\ UNCHANGED <<fetchVars, outsideSync>>

\* on_button_pressed(join_channel_button): start join_channel
JoinPressed ==
    /\ display.mounted
    /\ display.join
    /\ Free /= {}
    /\ thr' = [thr EXCEPT ![FirstFree] = NewThread("join", NoChannel, "join")]
    /\ lastDisp' = NoDisp
    /\ UNCHANGED <<selected_channel_id, last_message_ts, display, history, member,
                   clock, emitted, wmSrc, status>>
    /\ UNCHANGED <<fetchVars, outsideSync>>

\* somebody posts a message to channel c
PostMessage(c) ==
    /\ clock < MaxTs
    /\ clock' = clock + 1
    /\ history' = [history EXCEPT ![c] = Append(@, [ts |-> TsStr(clock + 1), ch |-> c])]
    /\ lastDisp' = NoDisp
    /\ UNCHANGED <<selected_channel_id, last_message_ts, display, thr, member,
                   emitted, wmSrc, status>>
    /\ UNCHANGED <<fetchVars, outsideSync>>

\* conversations_info(channel): the answer o of the service as the code reads it
InfoResult(chan, o) ==
    IF o /= "ok" THEN o ELSE IF member[chan] THEN "member" ELSE "not_member"

InfoOutcomes(chan) == IF chan = NoChannel THEN {"error", "raise"} ELSE {"ok", "error", "raise"}

\* refresh_messages_loop: after sleep(1) the loop condition, then
\* load_messages_impl up to its conversations_info call
LoopWake(t, o) ==
    /\ thr[t].kind = "loop"
    /\ thr[t].pc = "guard"
    /\ IF LoopGuard(thr[t])
         THEN /\ o \in InfoOutcomes(thr[t].chan)
              /\ thr' = [thr EXCEPT ![t].pc = "info_ret",
                                    ![t].res = InfoResult(thr[t].chan, o)]
              /\ status' = Status("Checking channel membership...", "loading")
         ELSE /\ o = "ok"
              /\ thr' = [thr EXCEPT ![t] = NoThread]
              /\ UNCHANGED status
    /\ lastDisp' = NoDisp
    /\ UNCHANGED <<selected_channel_id, last_message_ts, display, history, member,
                   clock, emitted, wmSrc>>
    /\ UNCHANGED <<fetchVars, outsideSync>>

\* load_messages: load_messages_impl up to its conversations_info call
InfoCall(t, o) ==
    /\ thr[t].kind = "load"
    /\ thr[t].pc = "info"
    /\ o \in InfoOutcomes(thr[t].chan)
    /\ thr' = [thr EXCEPT ![t].pc = "info_ret", ![t].res = InfoResult(thr[t].chan, o)]
    /\ status' = Status("Checking channel membership...", "loading")
    /\ lastDisp' = NoDisp
    /\ UNCHANGED <<selected_channel_id, last_message_ts, display, history, member,
                   clock, emitted, wmSrc>>
    /\ UNCHANGED <<fetchVars, outsideSync>>

\* load_messages_impl after conversations_info: is_member; show_join_button
\* and return, or status "Loading messages..." and conversations_history
InfoReturn(t, o) ==
    /\ thr[t].kind /= "none"
    /\ thr[t].pc = "info_ret"
    /\ o \in {"ok", "error", "raise"}
    /\ IF thr[t].res = "raise"
         THEN /\ o = "ok"
              /\ status' = Status("Error loading messages", "error")
              /\ thr' = [thr EXCEPT ![t] = AfterImpl(thr[t])]
              /\ UNCHANGED display
         ELSE IF thr[t].res = "member"
         THEN /\ status' = Status("Loading messages...", "loading")
              /\ thr' = [thr EXCEPT ![t].pc = "hist_ret", ![t].res = o,
                                    ![t].msgs = IF o = "ok"
                                                  THEN Latest(history[thr[t].chan])
                                                  ELSE <<>>]
              /\ UNCHANGED display
         ELSE /\ o = "ok"
              /\ display' = IF display.mounted
                              THEN [display EXCEPT !.lines = <<>>, !.notice = "notmember",
                                                   !.input = FALSE, !.join = TRUE]
                              ELSE display
              /\ status' = Status("Bot is not a member", "error")
              /\ thr' = [thr EXCEPT ![t] = AfterImpl(thr[t])]
    /\ lastDisp' = NoDisp
    /\ UNCHANGED <<selected_channel_id, last_message_ts, history, member,
                   clock, emitted, wmSrc>>
    /\ UNCHANGED <<fetchVars, outsideSync>>

\* load_messages_impl after conversations_history: display_messages on the
\* UI loop and the status, or the failure status
HistReturn(t) ==
    /\ thr[t].kind /= "none"
    /\ thr[t].pc = "hist_ret"
    /\ IF thr[t].res = "ok"
         THEN LET d == DisplayMessages(thr[t].msgs, last_message_ts)
                  m == display.mounted
              IN  /\ display' =
                        IF ~m THEN display
                        ELSE IF d.clear
                          THEN [display EXCEPT
                                  !.lines = d.out,
                                  !.notice = IF d.out = <<>> THEN "nomsgs" ELSE ""]
                          ELSE [display EXCEPT !.lines = @ \o d.out]
                  /\ last_message_ts' = IF m THEN d.wm ELSE last_message_ts
                  /\ emitted' = IF m THEN emitted \o d.out ELSE emitted
                  /\ lastDisp' = [kind |-> thr[t].kind, chan |-> thr[t].chan,
                                  old |-> thr[t].old, stale |-> thr[t].stale,
                                  mounted |-> m, before |-> last_message_ts,
                                  msgs |-> thr[t].msgs,
                                  out |-> IF m THEN d.out ELSE <<>>,
                                  after |-> IF m THEN d.wm ELSE last_message_ts]
                  /\ wmSrc' = IF m /\ d.wm /= last_message_ts
                                THEN [set |-> TRUE, ch |-> thr[t].chan,
                                      stale |-> thr[t].stale]
                                ELSE wmSrc
                  /\ status' = Status("Loaded messages", "success")
         ELSE /\ status' = IF thr[t].res = "error"
                             THEN Status("Failed to load messages", "error")
                             ELSE Status("Error loading messages", "error")
              /\ lastDisp' = NoDisp
              /\ UNCHANGED <<display, last_message_ts, emitted, wmSrc>>
    /\ thr' = [thr EXCEPT ![t] = AfterImpl(thr[t])]
    /\ UNCHANGED <<selected_channel_id, history, member, clock>>
    /\ UNCHANGED <<fetchVars, outsideSync>>

\* join_channel: the selected-channel test, status "Joining channel...",
\* conversations_join(channel=self.selected_channel_id)
JoinCall(t, o) ==
    /\ thr[t].kind = "join"
    /\ thr[t].pc = "join"
    /\ o \in {"ok", "error", "raise"}
    /\ IF selected_channel_id = NoChannel
         THEN /\ o = "error"
              /\ status' = Status("Error: No channel selected", "error")
              /\ thr' = [thr EXCEPT ![t] = NoThread]
              /\ UNCHANGED member
         ELSE /\ status' = Status("Joining channel...", "loading")
              /\ thr' = [thr EXCEPT ![t].pc = "join_ret", ![t].res = o,
                                    ![t].chan = selected_channel_id]
              /\ member' = IF o = "ok"
                             THEN [member EXCEPT ![selected_channel_id] = TRUE]
                             ELSE member
    /\ lastDisp' = NoDisp
    /\ UNCHANGED <<selected_channel_id, last_message_ts, display, history,
                   clock, emitted, wmSrc>>
    /\ UNCHANGED <<fetchVars, outsideSync>>

\* join_channel after conversations_join: clean_ui and the reload
\* load_messages_impl(self.selected_channel_id) up to its conversations_info
\* call, or the failure status
JoinReturn(t, o) ==
    /\ thr[t].kind = "join"
    /\ thr[t].pc = "join_ret"
    /\ IF thr[t].res = "ok"
         THEN /\ o \in InfoOutcomes(selected_channel_id)
              /\ display' = IF display.mounted
                              THEN [display EXCEPT !.join = FALSE, !.input = TRUE]
                              ELSE display
              /\ status' = Status("Checking channel membership...", "loading")
              /\ thr' = [thr EXCEPT ![t].pc = "info_ret",
                                    ![t].res = InfoResult(selected_channel_id, o),
                                    ![t].chan = selected_channel_id]
         ELSE /\ o = "ok"
              /\ status' = IF thr[t].res = "error"
                             THEN Status("Failed to join channel", "error")
                             ELSE Status("Error joining channel", "error")
              /\ thr' = [thr EXCEPT ![t] = NoThread]
              /\ UNCHANGED display
    /\ lastDisp' = NoDisp
    /\ UNCHANGED <<selected_channel_id, last_message_ts, history, member,
                   clock, emitted, wmSrc>>
    /\ UNCHANGED <<fetchVars, outsideSync>>

Next ==
    \/ \E c \in Channels : HandleChannelSelection(c)
    \/ ReturnToChannelSelection
    \/ JoinPressed
    \/ \E c \in Channels : PostMessage(c)
    \/ \E t \in Threads, o \in {"ok", "error", "raise"} : LoopWake(t, o)
    \/ \E t \in Threads, o \in {"ok", "error", "raise"} : InfoCall(t, o)
    \/ \E t \in Threads, o \in {"ok", "error", "raise"} : InfoReturn(t, o)
    \/ \E t \in Threads : HistReturn(t)
    \/ \E t \in Threads, o \in {"ok", "error", "raise"} : JoinCall(t, o)
    \/ \E t \in Threads, o \in {"ok", "error", "raise"} : JoinReturn(t, o)

Spec == Init /\ [][Next]_vars

NextFetch ==
    \/ LoadChannels
    \/ \E o \in Outcomes, ra \in RetryAfters : FetchPage(o, ra)
    \/ FetchFinish
    \/ RefreshWake
    \/ \E o \in Outcomes : GetAllPublicChannels(o)

SpecFetch == InitFetch /\ [][NextFetch]_vars

\* the passes of cli.py alone.  The thread of load_channels and then of
\* refresh_channels_loop runs whenever it can: every request is answered or
\* raises, and every sleep returns
InitPass ==
    /\ InitFetch
    /\ program = "cli"

FetchStep ==
    \/ \E o \in Outcomes, ra \in RetryAfters : FetchPage(o, ra)
    \/ FetchFinish

NextPass ==
    \/ LoadChannels
    \/ \E o \in Outcomes, ra \in RetryAfters : FetchPage(o, ra)
    \/ FetchFinish
    \/ RefreshWake

SpecPass == InitPass /\ [][NextPass]_vars /\ WF_vars(FetchStep)

\* ================================================ channel selection screen
\* channel.get('name'): every channel has a name of its own; every name
\* contains "b", and all but the first contain "a"
ChannelName(c) == [i \in 1..c |-> IF i = c THEN "b" ELSE "a"]

\* what the operator types into #channel_input
Queries == {<<>>, <<" ">>, <<"a">>, <<"A">>, <<"b">>, <<"#", "a">>, <<"a", "b">>}

\* str.lstrip('#')
RECURSIVE LStripHash(_)
LStripHash(str) == IF str /= <<>> /\ Head(str) = "#" THEN LStripHash(Tail(str)) ELSE str

\* `sub in str`
Contains(sub, str) ==
    \E i \in 0..(Len(str) - Len(sub)) : SubSeq(str, i + 1, i + Len(sub)) = sub

\* update_suggestions(query): the new filtered_channels and suggestion_labels
UpdateSuggestions(query) ==
    LET query_lower == LStripHash(Lower(query))
        filtered == IF query_lower /= <<>>
                      THEN SelectSeq(channels,
                                     LAMBDA ch : Contains(query_lower, Lower(ChannelName(ch))))
                      ELSE Take(channels, 20)
    IN  [filtered_channels |-> filtered, suggestion_labels |-> Take(filtered, 50)]

\* the channel selection screen is shown
Selecting == selected_channel_id = NoChannel /\ ~display.mounted

\* on_input_changed for #channel_input: the operator edits the query
OnInputChanged(query) ==
    /\ Selecting
    /\ query /= channel_input
    /\ channel_input' = query
    /\ filtered_channels' = UpdateSuggestions(query).filtered_channels
    /\ suggestion_labels' = UpdateSuggestions(query).suggestion_labels
    /\ selected_index' = 0
    /\ UNCHANGED outsideSuggest

Max(a, b) == IF a > b THEN a ELSE b
Min(a, b) == IF a < b THEN a ELSE b

\* action_navigate_up
NavigateUp ==
    /\ Selecting
    /\ suggestion_labels /= <<>>
    /\ selected_index' = Max(0, selected_index - 1)
    /\ UNCHANGED <<filtered_channels, suggestion_labels, channel_input>>
    /\ UNCHANGED outsideSuggest

\* action_navigate_down
NavigateDown ==
    /\ Selecting
    /\ suggestion_labels /= <<>>
    /\ selected_index' = Min(Len(suggestion_labels) - 1, selected_index + 1)
    /\ UNCHANGED <<filtered_channels, suggestion_labels, channel_input>>
    /\ UNCHANGED outsideSuggest

\* `self.filtered_channels and self.selected_index < len(self.filtered_channels)`
IndexInRange == filtered_channels /= <<>> /\ selected_index < Len(filtered_channels)

\* the channels whose name is the typed name, ignoring case, in list order
NameMatches(typed) ==
    SelectSeq(channels, LAMBDA ch : Lower(ChannelName(ch)) = Lower(LStripHash(typed)))

\* on_input_submitted for #channel_input
OnChannelSubmitted ==
    /\ Selecting
    /\ Strip(channel_input) /= <<>>
    /\ IF IndexInRange
         THEN HandleChannelSelection(filtered_channels[selected_index + 1])
         ELSE IF NameMatches(Strip(channel_input)) /= <<>>
         THEN HandleChannelSelection(Head(NameMatches(Strip(channel_input))))
         ELSE /\ status' = Status("Channel not found", "error")
              /\ UNCHANGED <<fetchVars, syncVars, outsideSync>>

\* action_select_first_suggestion (the Tab key)
SelectFirstSuggestion ==
    /\ Selecting
    /\ IndexInRange
    /\ HandleChannelSelection(filtered_channels[selected_index + 1])

\* the operator on the channel selection screen while the refresh loop runs
NextSuggest ==
    \/ \E query \in Queries : OnInputChanged(query)
    \/ NavigateUp
    \/ NavigateDown
    \/ OnChannelSubmitted
    \/ SelectFirstSuggestion
    \/ RefreshWake
    \/ \E o \in Outcomes, ra \in RetryAfters : FetchPage(o, ra)
    \/ FetchFinish

SpecSuggest == Init /\ [][NextSuggest]_vars

\* ===================================================== the cache file
\* a fresh process; the file is absent or holds the snapshot of an earlier run
InitCache ==
    /\ InitFetchState
    /\ mpages = <<>>
    /\ InitSyncState
    /\ member = [c \in Channels |-> FALSE]
    /\ program = "cli"
    /\ pages = PagesOf(<<0>>)
    /\ lastCur = EmptyCursor
    /\ cache_file = CacheFile(FALSE, <<>>)
    /\ slack_app = TRUE
    /\ user_cache = EmptyDict
    /\ cache_items = <<>>
    /\ \/ disk = NoFile
       \/ \E S \in Snapshots : disk = [exists |-> TRUE, text |-> JsonDump(S)]

\* _fetch_channels_impl lines 458-460 and save_channels_cache up to
\* open(CHANNELS_CACHE_FILE, 'w'), which creates or truncates the file
SaveOpen(S) ==
    /\ saver.pc = "idle"
    /\ channels' = S
    /\ filtered_channels' = S
    /\ disk' = [exists |-> TRUE, text |-> <<>>]
    /\ saver' = [pc |-> "writing", todo |-> JsonDump(S), state |-> "open",
                 hadOld |-> disk.exists /\ JsonLoad(disk.text).ok,
                 old |-> JsonLoad(disk.text).data, new |-> S]
    /\ loadRes' = NoLoad
    /\ UNCHANGED channels_loaded
    /\ UNCHANGED outsideCache

\* json.dump: the next piece reaches the file
SaveWrite ==
    /\ saver.pc = "writing"
    /\ saver.todo /= <<>>
    /\ disk' = [disk EXCEPT !.text = Append(@, Head(saver.todo))]
    /\ saver' = [saver EXCEPT !.todo = Tail(@)]
    /\ loadRes' = NoLoad
    /\ UNCHANGED <<channels, filtered_channels, channels_loaded>>
    /\ UNCHANGED outsideCache

\* the end of the with block
SaveClose ==
    /\ saver.pc = "writing"
    /\ saver.todo = <<>>
    /\ saver' = [saver EXCEPT !.pc = "idle", !.state = "closed"]
    /\ loadRes' = NoLoad
    /\ UNCHANGED <<disk, channels, filtered_channels, channels_loaded>>
    /\ UNCHANGED outsideCache

\* the program ends (quit, kill) and is started again: BotCLI.__init__
Restart ==
    /\ channels' = <<>>
    /\ filtered_channels' = <<>>
    /\ channels_loaded' = FALSE
    /\ saver' = [saver EXCEPT !.pc = "idle", !.todo = <<>>,
                              !.state = IF saver.pc = "writing"
                                          THEN "interrupted" ELSE @]
    /\ loadRes' = [NoLoad EXCEPT !.restarted = TRUE]
    /\ UNCHANGED disk
    /\ UNCHANGED outsideCache

\* load_channels_cache, by this process when it starts (who = "self") or by
\* another instance of the program that shares the file (who = "other")
LoadChannelsCache(who) ==
    /\ who = "self" => saver.pc = "idle" /\ channels = <<>>
    /\ ~loadRes.set
    /\ LET r == IF disk.exists THEN JsonLoad(disk.text) ELSE ParseFail
       IN  /\ loadRes' = [set |-> TRUE, who |-> who, ok |-> r.ok, data |-> r.data,
                          restarted |-> loadRes.restarted]
           /\ IF who = "self" /\ r.ok
                THEN /\ channels' = r.data
                     /\ filtered_channels' = r.data
                ELSE UNCHANGED <<channels, filtered_channels>>
    /\ UNCHANGED <<disk, saver, channels_loaded>>
    /\ UNCHANGED outsideCache

NextCache ==
    \/ \E S \in Snapshots : SaveOpen(S)
    \/ SaveWrite
    \/ SaveClose
    \/ Restart
    \/ \E who \in {"self", "other"} : LoadChannelsCache(who)

SpecCache == InitCache /\ [][NextCache]_vars

\* ======================================================== user names
InitUsers ==
    /\ InitFetchState
    /\ mpages = <<>>
    /\ InitSyncState
    /\ member = [c \in Channels |-> FALSE]
    /\ program = "cli"
    /\ pages = PagesOf(<<0>>)
    /\ lastCur = EmptyCursor
    /\ cache_file = CacheFile(FALSE, <<>>)
    /\ disk = NoFile
    /\ slack_app \in BOOLEAN
    /\ user_cache = EmptyDict
    /\ cache_items = <<>>

\* resolve_user_name up to its return or its users_info call (lines 731-739)
ResolveCall(r, u) ==
    /\ res[r].pc = "idle"
    /\ IF u \in DOMAIN user_cache
         THEN /\ res' = [res EXCEPT ![r] = [NoCall EXCEPT !.pc = "done", !.user = u,
                                                          !.ret = user_cache[u],
                                                          !.hit = TRUE,
                                                          !.cached = user_cache[u]]]
              /\ UNCHANGED user_cache
         ELSE IF ~slack_app
         THEN /\ user_cache' = DictSet(user_cache, u, u)
              /\ res' = [res EXCEPT ![r] = [NoCall EXCEPT !.pc = "done", !.user = u,
                                                          !.ret = u]]
         ELSE /\ res' = [res EXCEPT ![r] = [NoCall EXCEPT !.pc = "lookup", !.user = u,
                                                          !.net = TRUE]]
              /\ UNCHANGED user_cache
    /\ UNCHANGED slack_app
    /\ UNCHANGED outsideUsers

\* users_info answers (o) with the user object rec: lines 740-756
ResolveReturn(r, o, rec) ==
    /\ res[r].pc = "lookup"
    /\ o \in {"ok", "not_ok", "raise"}
    /\ o /= "ok" => rec = NoRecord
    /\ LET name == Resolved(o, rec, res[r].user)
       IN  /\ user_cache' = DictSet(user_cache, res[r].user, name)
           /\ res' = [res EXCEPT ![r].pc = "done", ![r].ret = name, ![r].o = o,
                                 ![r].rec = rec]
    /\ UNCHANGED slack_app
    /\ UNCHANGED outsideUsers

\* the caller goes on with the name
ResolveDone(r) ==
    /\ res[r].pc = "done"
    /\ res' = [res EXCEPT ![r] = NoCall]
    /\ UNCHANGED <<slack_app, user_cache>>
    /\ UNCHANGED outsideUsers

NextUsers ==
    \/ \E r \in Resolvers, u \in Users : ResolveCall(r, u)
    \/ \E r \in Resolvers, o \in {"ok", "not_ok", "raise"}, rec \in UserRecords :
          ResolveReturn(r, o, rec)
    \/ \E r \in Resolvers : ResolveDone(r)

SpecUsers == InitUsers /\ [][NextUsers]_vars

\* ============================================================ sending
\* the operator watches channel 1
Watching ==
    /\ InitFetchState
    /\ lastDisp = NoDisp
    /\ wmSrc = NoSrc
    /\ emitted = <<>>
    /\ history = [c \in Channels |-> <<>>]
    /\ clock = 0
    /\ last_message_ts = NoTs
    /\ selected_channel_id = 1
    /\ display = NewView
    /\ thr = [t \in Threads |-> IF t = 1 THEN NewThread("loop", 1, "guard") ELSE NoThread]
    /\ member \in [Channels -> BOOLEAN]
    /\ program = "cli"
    /\ pages = PagesOf(<<0>>)
    /\ lastCur = EmptyCursor
    /\ cache_file = CacheFile(FALSE, <<>>)
    /\ disk = NoFile
    /\ slack_app = TRUE
    /\ user_cache = DictOf(cache_items)

\* the operator watches channel 1 and is about to send; one user name may be cached
InitSend ==
    /\ cache_items \in {items \in CacheItems : Len(items) <= 1}
    /\ Watching
    /\ mpages = <<>>

\* the translators are given every user cache
InitText ==
    /\ cache_items \in CacheItems
    /\ Watching
    /\ mpages = <<>>

\* on_input_submitted for #message_input: strip, and send_message(message)
\* when there is a message and a selected channel
OnInputSubmitted(text) ==
    /\ display.mounted /\ display.input
    /\ snd.pc = "idle"
    /\ msg_input' = text
    /\ IF Strip(text) /= <<>> /\ selected_channel_id /= NoChannel
         THEN snd' = [pc |-> "start", message |-> Strip(text), res |-> "none",
                      chan |-> selected_channel_id]
         ELSE snd' = NoSend
    /\ outbox' = NoPost
    /\ tr' = NoTranslation
    /\ UNCHANGED <<status, history, member, clock>>
    /\ UNCHANGED outsideText

\* send_message up to its conversations_info call (lines 976-985)
SendInfoCall(o) ==
    /\ snd.pc = "start"
    /\ IF ~slack_app \/ selected_channel_id = NoChannel
         THEN /\ o = "error"
              /\ status' = Status("Error: No channel selected", "error")
              /\ snd' = NoSend
         ELSE /\ o \in InfoOutcomes(selected_channel_id)
              /\ status' = Status("Checking channel membership...", "loading")
              /\ snd' = [snd EXCEPT !.pc = "info_ret",
                                    !.res = InfoResult(selected_channel_id, o)]
    /\ tr' = NoTranslation
    /\ UNCHANGED <<msg_input, outbox, history, member, clock>>
    /\ UNCHANGED outsideText

\* chat_postMessage(channel=self.selected_channel_id, text=message), answered o
PostCall(o) ==
    /\ o = "ok" => selected_channel_id /= NoChannel /\ clock < MaxTs
    /\ status' = Status("Sending message...", "loading")
    /\ outbox' = [set |-> TRUE, submitted |-> msg_input,
                  channel |-> selected_channel_id, text |-> snd.message]
    /\ snd' = [snd EXCEPT !.pc = "post_ret", !.res = o]
    /\ IF o = "ok"
         THEN /\ clock' = clock + 1
              /\ history' = [history EXCEPT ![selected_channel_id] =
                                Append(@, [ts |-> TsStr(clock + 1),
                                           ch |-> selected_channel_id])]
         ELSE UNCHANGED <<clock, history>>

\* send_message after conversations_info: is_member, then conversations_join
\* or chat_postMessage (lines 987-1009)
SendInfoReturn(o) ==
    /\ snd.pc = "info_ret"
    /\ o \in {"ok", "error", "raise"}
    /\ IF snd.res = "raise"
         THEN /\ o = "ok"
              /\ status' = Status("Error sending message", "error")
              /\ snd' = NoSend
              /\ UNCHANGED <<outbox, history, member, clock>>
         ELSE IF snd.res = "member"
         THEN /\ PostCall(o)
              /\ UNCHANGED member
         ELSE /\ status' = Status("Joining channel...", "loading")
              /\ snd' = [snd EXCEPT !.pc = "join_ret", !.res = o]
              /\ member' = IF o = "ok" /\ selected_channel_id /= NoChannel
                             THEN [member EXCEPT ![selected_channel_id] = TRUE]
                             ELSE member
              /\ UNCHANGED <<outbox, history, clock>>
    /\ tr' = NoTranslation
    /\ UNCHANGED msg_input
    /\ UNCHANGED outsideText

\* send_message after conversations_join (lines 995-1009)
SendJoinReturn(o) ==
    /\ snd.pc = "join_ret"
    /\ o \in {"ok", "error", "raise"}
    /\ IF snd.res = "ok"
         THEN PostCall(o)
         ELSE /\ o = "ok"
              /\ status' = IF snd.res = "error"
                             THEN Status("Failed to join channel", "error")
                             ELSE Status("Error sending message", "error")
              /\ snd' = NoSend
              /\ UNCHANGED <<outbox, history, clock>>
    /\ tr' = NoTranslation
    /\ UNCHANGED <<msg_input, member>>
    /\ UNCHANGED outsideText

\* send_message after chat_postMessage (lines 1011-1033)
SendPostReturn ==
    /\ snd.pc = "post_ret"
    /\ IF snd.res = "ok"
         THEN /\ status' = Status("Message sent", "success")
              /\ msg_input' = IF display.mounted /\ display.input THEN <<>> ELSE msg_input
         ELSE /\ status' = IF snd.res = "error"
                             THEN Status("Failed to send message", "error")
                             ELSE Status("Error sending message", "error")
              /\ UNCHANGED msg_input
    /\ snd' = NoSend
    /\ tr' = NoTranslation
    /\ UNCHANGED <<outbox, history, member, clock>>
    /\ UNCHANGED outsideText

\* the two translators of formatting.py applied to the mention of the i-th
\* cache entry: "@name hi" outbound, "<@id> hi" inbound
TranslateMention(i) ==
    /\ i \in 1..Len(cache_items)
    /\ tr' = [set |-> TRUE, id |-> cache_items[i].id, name |-> cache_items[i].name,
              out |-> ResolveMentionsInMessage(<<"@">> \o cache_items[i].name \o Hi,
                                               cache_items),
              inb |-> ParseSlackFormatting(<<"<", "@">> \o cache_items[i].id
                                             \o <<">">> \o Hi,
                                           user_cache, EmptyDict)]
    /\ UNCHANGED <<msg_input, snd, outbox, status, history, member, clock>>
    /\ UNCHANGED outsideText

NextSend ==
    \/ \E text \in Submissions : OnInputSubmitted(text)
    \/ \E o \in {"ok", "error", "raise"} : SendInfoCall(o)
    \/ \E o \in {"ok", "error", "raise"} : SendInfoReturn(o)
    \/ \E o \in {"ok", "error", "raise"} : SendJoinReturn(o)
    \/ SendPostReturn

SpecSend == InitSend /\ [][NextSend]_vars

\* sending while the operator leaves the channel view (the back button) and
\* opens a channel again; send_message runs in a thread of its own, so the
\* UI loop handles these events between its requests.  The polling threads
\* that handle_channel_selection starts are left at their first step.
InitSwitch ==
    /\ cache_items = <<>>
    /\ Watching
    /\ mpages = <<>>

NextSwitch ==
    \/ \E text \in {<<" ">>, Hi} : OnInputSubmitted(text)
    \/ \E o \in {"ok", "error", "raise"} : SendInfoCall(o)
    \/ \E o \in {"ok", "error", "raise"} : SendInfoReturn(o)
    \/ \E o \in {"ok", "error", "raise"} : SendJoinReturn(o)
    \/ SendPostReturn
    \/ ReturnToChannelSelection
    \/ \E c \in Channels : HandleChannelSelection(c)

SpecSwitch == InitSwitch /\ [][NextSwitch]_vars

NextText ==
    \E i \in 1..MaxEntries : TranslateMention(i)

SpecText == InitText /\ [][NextText]_vars

\* ============================== the translators of formatting.py on a text
\* every user cache; the operator watches channel 1
InitFormat ==
    /\ cache_items \in CacheItems
    /\ Watching
    /\ mpages = <<>>
    /\ member = [c \in Channels |-> TRUE]

\* the names an operator types after "@": [a-zA-Z0-9_.-]+
AtNames == {<<"a">>, <<"A">>, <<"b">>, <<"_", "a", "_">>, <<"a", ".">>}
\* what stands before and after the @name token
Before == {<<>>, <<"h", "i", " ">>}
After == {<<>>, Hi}

\* resolve_mentions_in_message(pre + "@" + name + post, self.user_cache)
ResolveMentions(pre, name, post) ==
    /\ fmt' = [fn |-> "resolve_mentions_in_message",
               text |-> pre \o <<"@">> \o name \o post,
               pre |-> pre, name |-> name, post |-> post,
               out |-> ResolveMentionsInMessage(pre \o <<"@">> \o name \o post,
                                                cache_items)]
    /\ UNCHANGED outsideFormat

\* the tokens of a message on the wire: <url|label> and <url> (no label),
\* <@id>, <#id|label> and <#id|> (no label)
UnderscoreUrl == <<"h", "t", "t", "p", ":", "/", "/", "_", "a", "_">>
Urls == {UrlText, UnderscoreUrl}
Labels == {<<>>, <<"l">>, <<"_", "a", "_">>}
ChannelIds == {<<"C", "1">>}
InboundTokens ==
    [kind : {"link"}, target : Urls, label : Labels]
      \cup [kind : {"user"}, target : Users, label : {<<>>}]
      \cup [kind : {"channel"}, target : ChannelIds, label : Labels]

TokenText(tok) ==
    CASE tok.kind = "link" ->
           <<"<">> \o tok.target
             \o (IF tok.label = <<>> THEN <<>> ELSE <<"|">> \o tok.label) \o <<">">>
      [] tok.kind = "user" -> <<"<", "@">> \o tok.target \o <<">">>
      [] tok.kind = "channel" -> <<"<", "#">> \o tok.target \o <<"|">> \o tok.label \o <<">">>

\* the channel_cache argument: empty, or the name of the channel
ChannelCaches == {EmptyDict, [k \in ChannelIds |-> <<"g">>]}

\* parse_slack_formatting(token, self.user_cache, channel_cache)
ParseToken(tok, chans) ==
    /\ fmt' = [fn |-> "parse_slack_formatting", text |-> TokenText(tok), tok |-> tok,
               chans |-> chans,
               out |-> ParseSlackFormatting(TokenText(tok), user_cache, chans)]
    /\ UNCHANGED outsideFormat

\* what an operator types: free text, a Markdown link [label](url), or a
\* token that is wrapped already, <url|label> and <url>; a label may name a URL
InputLabels == {<<"l">>, <<"l", " ">> \o UrlText}
MarkdownLink(label, url) == <<"[">> \o label \o <<"]", "(">> \o url \o <<")">>
WrappedLink(label, url) ==
    <<"<">> \o url \o (IF label = <<>> THEN <<>> ELSE <<"|">> \o label) \o <<">">>
UrlPieces == {<<" ">>, UrlText, MarkdownLinkText}
UrlTexts == {Concat(ps) : ps \in UNION {[1..n -> UrlPieces] : n \in 0..MaxPieces}}
FormatInputs ==
    [shape : {"text"}, label : {<<>>}, text : UrlTexts]
      \cup {[shape |-> "markdown", label |-> l, text |-> MarkdownLink(l, UrlText)] :
               l \in InputLabels}
      \cup {[shape |-> "wrapped", label |-> l, text |-> WrappedLink(l, UrlText)] :
               l \in InputLabels \cup {<<>>}}

\* format_user_input(text), and format_user_input of what it returned
FormatInput(in) ==
    /\ fmt' = [fn |-> "format_user_input", text |-> in.text, shape |-> in.shape,
               label |-> in.label,
               out |-> FormatUserInput(in.text),
               again |-> FormatUserInput(FormatUserInput(in.text))]
    /\ UNCHANGED outsideFormat

NextFormat ==
    \/ \E pre \in Before, name \in AtNames, post \in After :
          ResolveMentions(pre, name, post)
    \/ \E in \in FormatInputs : FormatInput(in)
    \/ \E tok \in InboundTokens, chans \in ChannelCaches : ParseToken(tok, chans)

SpecFormat == InitFormat /\ [][NextFormat]_vars

\* ================================== polling with ts of different lengths
\* str(n): the decimal digits of n without padding
RECURSIVE DecimalStr(_)
DecimalStr(n) == IF n < 10 THEN <<n>> ELSE DecimalStr(n \div 10) \o <<n % 10>>

\* the ts of the service stand just below a power of ten: the last of the
\* MaxTs messages of a run is the first whose ts has TsWidth digits
TsEpoch == Pow10(TsWidth - 1) - MaxTs

\* the operator watches channel 1, the polling loop sleeps
InitTs ==
    /\ cache_items = <<>>
    /\ Watching
    /\ mpages = <<>>

\* somebody posts a message to channel c; its ts is the decimal string of
\* the service's clock
PostTs(c) ==
    /\ clock < MaxTs
    /\ clock' = clock + 1
    /\ history' = [history EXCEPT ![c] = Append(@, [ts |-> DecimalStr(TsEpoch + clock + 1),
                                                    ch |-> c])]
    /\ lastDisp' = NoDisp
    /\ UNCHANGED <<selected_channel_id, last_message_ts, display, thr, member,
                   emitted, wmSrc, status>>
    /\ UNCHANGED <<fetchVars, outsideSync>>

NextTs ==
    \/ \E c \in Channels : PostTs(c)
    \/ \E t \in Threads, o \in {"ok", "error", "raise"} : LoopWake(t, o)
    \/ \E t \in Threads, o \in {"ok", "error", "raise"} : InfoReturn(t, o)
    \/ \E t \in Threads : HistReturn(t)

SpecTs == InitTs /\ [][NextTs]_vars

\* ============================================ polling a channel for ever
\* the operator stays in channel 1, the bot is a member, and every request
\* of the polling thread is answered ok
InitLive ==
    /\ cache_items = <<>>
    /\ Watching
    /\ mpages = <<>>
    /\ member = [c \in Channels |-> TRUE]

\* somebody posts a message to the watched channel
PostLive ==
    /\ clock < MaxPosts
    /\ clock' = clock + 1
    /\ history' = [history EXCEPT ![selected_channel_id] =
                      Append(@, [ts |-> TsStr(clock + 1), ch |-> selected_channel_id])]
    /\ lastDisp' = NoDisp
    /\ UNCHANGED <<selected_channel_id, last_message_ts, display, thr, member,
                   emitted, wmSrc, status>>
    /\ UNCHANGED <<fetchVars, outsideSync>>

\* a step of refresh_messages_loop: the thread is started by a worker and
\* nothing stops it, so it goes on whenever it can
Poll ==
    \/ \E t \in Threads : LoopWake(t, "ok")
    \/ \E t \in Threads : InfoReturn(t, "ok")
    \/ \E t \in Threads : HistReturn(t)

NextLive ==
    \/ PostLive
    \/ \E t \in Threads : LoopWake(t, "ok")
    \/ \E t \in Threads : InfoReturn(t, "ok")
    \/ \E t \in Threads : HistReturn(t)

SpecLive == InitLive /\ [][NextLive]_vars /\ WF_vars(Poll)

\* ================================================ the open channel view
\* the member list of the open channel, in one page or in two
UserList == <<<<"U", "1">>, <<"U", "2">>>>
MemberPageConfigs == {<<UserList>>, <<SubSeq(UserList, 1, 1), SubSeq(UserList, 2, 2)>>}

\* next_cursor sent with page k of conversations_members
MemberNextCursor(k) == IF k < Len(mpages) THEN k + 1 ELSE EmptyCursor

\* the messages of a conversations_history result: the author and the user
\* the text mentions (<@id>), if it mentions one
ViewMessages == [user : Users, mention : Users \cup {<<>>}]

\* users_info answers ok with a name, or rate limited (a not-ok result, an
\* exception)
LookupAnswers == {"ok", "rl_result", "rl_exc"}
NamedRecord == [NoRecord EXCEPT !.real_name = <<"r">>]
\* what resolve_user_name stores and returns for the answer o
Stored(o, user_id) == Resolved(o, NamedRecord, user_id)

\* the operator has just opened channel 1 and nothing is cached
InitView ==
    /\ cache_items = <<>>
    /\ Watching
    /\ member = [c \in Channels |-> TRUE]
    /\ mpages \in MemberPageConfigs

\* load_channel_members(channel_id) is started (handle_channel_selection,
\* update_member_suggestions) and passes its guard
MembersStart ==
    /\ mw.pc \in {"idle", "done"}
    /\ slack_app
    /\ selected_channel_id \notin DOMAIN channel_members
    /\ mw' = [NoMembers EXCEPT !.pc = "list", !.chan = selected_channel_id, !.k = 1]
    /\ UNCHANGED <<channel_members, lw, ui, mpages, net, user_cache>>
    /\ UNCHANGED outsideView

\* one turn of the `while True` of load_channel_members: conversations_members
\* answers o
MembersPage(o) ==
    /\ mw.pc = "list"
    /\ net' = Request("conversations_members", "members")
    /\ IF o = "ok"
         THEN LET k == PageIndex(mw.cursor)
                  nxt == MemberNextCursor(k)
              IN  mw' = [mw EXCEPT !.members = Extend(@, mpages[k]),
                                   !.cursor = nxt,
                                   !.pc = IF Falsy(nxt) THEN "resolve" ELSE "list",
                                   !.log = Append(@, o)]
         ELSE IF o \in {"rl_result", "err_result"}
         THEN mw' = [mw EXCEPT !.pc = "resolve", !.log = Append(@, o)]
         ELSE mw' = [mw EXCEPT !.pc = "done", !.log = Append(@, o)]
    /\ UNCHANGED <<channel_members, lw, ui, mpages, user_cache>>
    /\ UNCHANGED outsideView

\* `for user_id in members`: resolve_user_name up to its return from the
\* cache or its users_info call; after the loop the list is stored
MembersResolve ==
    /\ mw.pc = "resolve"
    /\ IF mw.k > Len(mw.members)
         THEN /\ channel_members' = DictSet(channel_members, mw.chan, mw.list)
              /\ mw' = [mw EXCEPT !.pc = "done"]
              /\ UNCHANGED net
         ELSE IF mw.members[mw.k] \in DOMAIN user_cache
         THEN /\ mw' = [mw EXCEPT !.k = @ + 1,
                                   !.list = Append(@, [id |-> mw.members[mw.k],
                                                       name |-> user_cache[mw.members[mw.k]]])]
              /\ UNCHANGED <<channel_members, net>>
         ELSE /\ mw' = [mw EXCEPT !.pc = "lookup"]
              /\ net' = Request("users_info", "members")
              /\ UNCHANGED channel_members
    /\ UNCHANGED <<lw, ui, mpages, user_cache>>
    /\ UNCHANGED outsideView

\* users_info answers the members thread: the name is stored and appended
MembersLookupReturn(o) ==
    /\ mw.pc = "lookup"
    /\ user_cache' = DictSet(user_cache, mw.members[mw.k], Stored(o, mw.members[mw.k]))
    /\ mw' = [mw EXCEPT !.pc = "resolve", !.k = @ + 1,
                         !.list = Append(@, [id |-> mw.members[mw.k],
                                             name |-> Stored(o, mw.members[mw.k])])]
    /\ UNCHANGED <<channel_members, lw, ui, mpages, net>>
    /\ UNCHANGED outsideView

\* conversations_history answered load_messages_impl with the messages ms:
\* user_ids is the set of their authors (lines 900-906)
HistoryResult(ms) ==
    /\ lw.pc \in {"idle", "done"}
    /\ ui.pc = "idle"
    /\ lw' = [pc |-> "authors", messages |-> ms,
              todo |-> {ms[i].user : i \in 1..Len(ms)}, cur |-> <<>>]
    /\ net' = Request("conversations_history", "messages")
    /\ UNCHANGED <<channel_members, mw, ui, mpages, user_cache>>
    /\ UNCHANGED outsideView

\* `for user_id in user_ids`: the author u, resolved if it is not cached;
\* after the loop call_from_thread(display_messages)
ResolveAuthor(u) ==
    /\ lw.pc = "authors"
    /\ IF lw.todo = {}
         THEN /\ u = UserList[1]
              /\ lw' = [lw EXCEPT !.pc = "handoff"]
              /\ UNCHANGED net
         ELSE /\ u \in lw.todo
              /\ IF u \in DOMAIN user_cache
                   THEN /\ lw' = [lw EXCEPT !.todo = @ \ {u}]
                        /\ UNCHANGED net
                   ELSE /\ lw' = [lw EXCEPT !.pc = "lookup", !.cur = u]
                        /\ net' = Request("users_info", "messages")
    /\ UNCHANGED <<channel_members, mw, ui, mpages, user_cache>>
    /\ UNCHANGED outsideView

\* users_info answers the messages thread
AuthorLookupReturn(o) ==
    /\ lw.pc = "lookup"
    /\ user_cache' = DictSet(user_cache, lw.cur, Stored(o, lw.cur))
    /\ lw' = [lw EXCEPT !.pc = "authors", !.todo = @ \ {lw.cur}, !.cur = <<>>]
    /\ UNCHANGED <<channel_members, mw, ui, mpages, net>>
    /\ UNCHANGED outsideView

\* the UI loop runs the display_messages callback: for every message
\* resolve_text(text), whose resolve_mentions_in_text calls
\* resolve_user_name(mention) up to its return from the cache or its
\* users_info call; after the last message the callback returns
DisplayStep ==
    /\ lw.pc = "handoff"
    /\ ui.pc \in {"idle", "render"}
    /\ IF ui.pc = "idle"
         THEN /\ ui' = [pc |-> "render", k |-> 1]
              /\ UNCHANGED <<lw, net>>
         ELSE IF ui.k > Len(lw.messages)
         THEN /\ ui' = NoRender
              /\ lw' = [lw EXCEPT !.pc = "done"]
              /\ UNCHANGED net
         ELSE IF lw.messages[ui.k].mention = <<>>
                 \/ lw.messages[ui.k].mention \in DOMAIN user_cache
         THEN /\ ui' = [ui EXCEPT !.k = @ + 1]
              /\ UNCHANGED <<lw, net>>
         ELSE /\ ui' = [ui EXCEPT !.pc = "lookup"]
              /\ net' = Request("users_info", "ui")
              /\ UNCHANGED lw
    /\ UNCHANGED <<channel_members, mw, mpages, user_cache>>
    /\ UNCHANGED outsideView

\* users_info answers the UI loop
DisplayLookupReturn(o) ==
    /\ ui.pc = "lookup"
    /\ user_cache' = DictSet(user_cache, lw.messages[ui.k].mention,
                             Stored(o, lw.messages[ui.k].mention))
    /\ ui' = [ui EXCEPT !.pc = "render", !.k = @ + 1]
    /\ UNCHANGED <<channel_members, mw, lw, mpages, net>>
    /\ UNCHANGED outsideView

NextView ==
    \/ MembersStart
    \/ \E o \in Outcomes : MembersPage(o)
    \/ MembersResolve
    \/ \E o \in LookupAnswers : MembersLookupReturn(o)
    \/ \E ms \in [1..1 -> ViewMessages] : HistoryResult(ms)
    \/ \E u \in Users : ResolveAuthor(u)
    \/ \E o \in LookupAnswers : AuthorLookupReturn(o)
    \/ DisplayStep
    \/ \E o \in LookupAnswers : DisplayLookupReturn(o)

SpecView == InitView /\ [][NextView]_vars

\* ================================================================ claims
AllOk(log) == \A i \in 1..Len(log) : log[i].outcome = "ok"
NoError(log) == \A i \in 1..Len(log) : ~IsError(log[i].outcome)
Cursors(log) == [i \in 1..Len(log) |-> log[i].cursor]
OkRequests(log) == SelectSeq(log, LAMBDA e : e.outcome = "ok")

\* the requests of a complete pass: None, then the cursor of every further page
ExpectedCursors == [i \in 1..Len(pages) |-> IF i = 1 THEN NoCursor ELSE i]

\* C1: when every page request succeeds, the fetch requests cursor None and
\* then each returned next_cursor until a page carries none, every page once
\* and in order, and the resulting list is the concatenation of the pages
\* (cli.py's _fetch_channels_impl and app.py's get_all_public_channels).
C1_PaginationComplete ==
    /\ (program = "cli" /\ fc.pc = "sleep" /\ AllOk(reqLog)) =>
          /\ Cursors(reqLog) = ExpectedCursors
          /\ channels = Concat(pages)
    /\ (program = "app" /\ ga.pc = "done" /\ ~ga.err) =>
          /\ ga.log = ExpectedCursors
          /\ ga.result = Concat(pages)

\* the scaled scenario: 5 entries over 3 pages of at most 2
C1_Witness ==
    /\ program = "cli" /\ fc.pc = "sleep" /\ AllOk(reqLog)
    /\ Len(pages) = 3 /\ Len(channels) = 5

\* C10: a rate-limited page request is retried with the same cursor and the
\* items of the earlier pages are kept: a pass in which only rate limits
\* occurred ends with every page's items exactly once.
C10_RateLimitRetry ==
    program = "cli" =>
      /\ \A i \in 1..Len(reqLog) :
            IsRateLimit(reqLog[i].outcome) =>
               IF i < Len(reqLog) THEN reqLog[i + 1].cursor = reqLog[i].cursor
               ELSE fc.pc = "fetch" /\ fc.cursor = reqLog[i].cursor
      /\ (fc.pc \in {"fetch", "finish"} /\ NoError(reqLog)) =>
            fc.acc = Concat([i \in 1..Len(OkRequests(reqLog)) |->
                               pages[PageIndex(OkRequests(reqLog)[i].cursor)]])
      /\ (fc.pc = "sleep" /\ NoError(reqLog)) =>
            /\ channels = Concat(pages)
            /\ Cursors(OkRequests(reqLog)) = ExpectedCursors

C10_Witness ==
    /\ program = "cli" /\ fc.pc = "sleep" /\ NoError(reqLog)
    /\ Len(channels) >= 3
    /\ \E i \in 2..Len(reqLog) : reqLog[i].outcome = "rl_result"
    /\ \E i \in 2..Len(reqLog) : reqLog[i].outcome = "rl_exc"

MaxOf(S) == CHOOSE x \in S : \A y \in S : y <= x

\* the messages of a fetched page (newest first) whose ts is numerically
\* greater than the watermark, oldest first
NewerThan(messages, wm) ==
    SelectSeq(Reverse(messages), LAMBDA m : TsNum(m.ts) > TsNum(wm))

\* C2 (emission): a poll that finds a watermark emits exactly the fetched
\* messages whose ts is greater than that watermark, oldest first, and leaves
\* the watermark at the maximum of the previous watermark and the ts emitted.
C2_PollEmission ==
    (lastDisp.kind /= "none" /\ lastDisp.mounted /\ lastDisp.before /= NoTs) =>
       /\ lastDisp.out = NewerThan(lastDisp.msgs, lastDisp.before)
       /\ \A i, j \in 1..Len(lastDisp.out) :
             i < j => TsNum(lastDisp.out[i].ts) < TsNum(lastDisp.out[j].ts)
       /\ TsNum(lastDisp.after) =
             MaxOf({TsNum(lastDisp.before)}
                   \cup {TsNum(lastDisp.out[i].ts) : i \in 1..Len(lastDisp.out)})
       /\ last_message_ts = lastDisp.after

\* C2 (monotonicity): the watermark never decreases while the channel stays watched
C2_Monotone ==
    (last_message_ts /= NoTs /\ selected_channel_id' = selected_channel_id) =>
       /\ last_message_ts' /= NoTs
       /\ TsNum(last_message_ts') >= TsNum(last_message_ts)

C4_StaleResultDiscarded ==
    (lastDisp.kind /= "none" /\ lastDisp.stale) =>
       /\ lastDisp.out = <<>>
       /\ lastDisp.after = lastDisp.before

\* C5: at most one polling loop polls the watched channel, and it is the loop
\* of the current watch: a new watch stops the loop of the previous one.
C5_OnePollingLoop ==
    LET polling == {t \in Threads : thr[t].kind = "loop" /\ LoopGuard(thr[t])}
    IN  /\ Cardinality(polling) <= 1
        /\ \A t \in polling : ~thr[t].old

\* C6 (start): the watermark is None when a watch starts
C6_StartsEmpty ==
    (selected_channel_id = NoChannel /\ selected_channel_id' /= NoChannel) =>
       last_message_ts' = NoTs

\* C6 (origin): the watermark comes from a message of the watched channel
\* fetched during the current watch
C6_Origin ==
    (selected_channel_id /= NoChannel /\ last_message_ts /= NoTs) =>
       /\ wmSrc.set
       /\ wmSrc.ch = selected_channel_id
       /\ ~wmSrc.stale

\* C6: switching channels discards the old sync state: the watermark is None
\* at the start of every watch and is derived only from messages of the
\* watched channel fetched during the current watch.
C6_FreshSyncState == []C6_Origin /\ [][C6_StartsEmpty]_vars

\* C7: while the bot is not a member and the join button is shown, no polling
\* iteration of the watched channel runs.
C7_NoPollingWhileNotMember ==
    \A t \in Threads :
       ( /\ display.mounted /\ display.join
         /\ ~member[selected_channel_id]
         /\ thr[t].kind = "loop" /\ ~thr[t].old
         /\ thr[t].chan = selected_channel_id ) => thr[t].pc = "guard"

\* C8: the initial load of a watch writes every message of the fetched page,
\* oldest first, and sets the watermark to the maximum ts fetched.
C8_InitialLoad ==
    (lastDisp.kind = "load" /\ ~lastDisp.old /\ lastDisp.mounted) =>
       /\ lastDisp.out = Reverse(lastDisp.msgs)
       /\ lastDisp.msgs /= <<>> =>
             TsNum(lastDisp.after) =
                MaxOf({TsNum(lastDisp.msgs[i].ts) : i \in 1..Len(lastDisp.msgs)})

\* a polling thread handles the failure of its membership or history fetch
FailedPollStep(t) ==
    /\ thr[t].kind = "loop"
    /\ thr[t].pc \in {"info_ret", "hist_ret"}
    /\ thr[t].res \in {"error", "raise"}
    /\ thr'[t].pc /= thr[t].pc

\* C9: a failed membership or history fetch of a poll is reported as an error
\* status, leaves the watermark and the messages shown as they were, and the
\* loop goes on to its next iteration.
C9_FailedPollHarmless ==
    [][\A t \in Threads :
          FailedPollStep(t) =>
             /\ status'.type = "error"
             /\ last_message_ts' = last_message_ts
             /\ emitted' = emitted
             /\ display'.lines = display.lines
             /\ thr'[t].kind = "loop" /\ thr'[t].pc = "guard"]_vars

\* --------------------------------------------------- claims C11 .. C20
\* C11: before retrying a rate-limited page request the fetch waits at least
\* the retry-after value the rate-limited response carries, and 1 second when
\* it carries none, whether the rate limit is a not-ok result or an exception.
C11_RetryAfterWait ==
    lastSleep.set =>
       lastSleep.slept >= (IF lastSleep.retry_after = NoRetryAfter
                             THEN 1 ELSE lastSleep.retry_after)

\* C12: a pass that stopped on an error other than a rate limit ends with the
\* items of the pages fetched before it and with an outcome at the status
\* line that is marked as an error, not as a plain success.
C12_PartialSuccessMarked ==
    (program = "cli" /\ fc.pc = "sleep" /\ report.set /\ ~NoError(reqLog)) =>
       /\ channels = Concat([i \in 1..Len(OkRequests(reqLog)) |->
                               pages[PageIndex(OkRequests(reqLog)[i].cursor)]])
       /\ status.type = "error"

\* C13: the snapshot in the cache file is empty or the complete result of a
\* pass in which every page succeeded; a pass that stopped on an error never
\* writes its partial list.
C13_CacheCompleteOrEmpty ==
    (program = "cli" /\ cache_file.exists) =>
       cache_file.data \in {<<>>, Concat(pages)}

\* C16: when a pass completes its result replaces the in-memory list and the
\* cache file, and the status line is given the delta new_count - old_count.
C16_ReplaceAndDelta ==
    (program = "cli" /\ report.set) =>
       /\ channels = report.result
       /\ cache_file = CacheFile(TRUE, report.result)
       /\ report.shown = report.new_count - report.old_count

\* C14: a load that runs while a save is in progress, or after a save was
\* interrupted part-way, returns the complete snapshot that preceded the save
\* or the complete snapshot being saved.
C14_SaveAtomic ==
    (loadRes.set /\ saver.state \in {"open", "interrupted"} /\ saver.hadOld) =>
       /\ loadRes.ok
       /\ loadRes.data \in {saver.old, saver.new}

\* C15: for every channel list S, the empty one included, a completed
\* save_channels_cache of S followed by load_channels_cache, also after a
\* restart, succeeds and leaves channels equal to S, records and order kept.
C15_SaveLoadRoundTrip ==
    (loadRes.set /\ saver.state = "closed") =>
       /\ loadRes.ok
       /\ loadRes.data = saver.new
       /\ loadRes.who = "self" => channels = saver.new /\ filtered_channels = saver.new

C15_Witness ==
    /\ loadRes.set /\ loadRes.who = "self" /\ loadRes.restarted
    /\ saver.state = "closed"
    /\ saver.hadOld /\ saver.old /= saver.new
    /\ channels = saver.new /\ Len(channels) = MaxSnapshot
    /\ channels[1] /= channels[2]

\* the same for the empty list
C15_WitnessEmpty ==
    /\ loadRes.set /\ loadRes.who = "self" /\ loadRes.restarted
    /\ saver.state = "closed" /\ saver.new = <<>> /\ saver.old /= <<>>

\* the first name field of rec that is present and not empty, <<>> if none
FirstName(rec) ==
    LET fields == <<rec.real_name, rec.profile_real_name, rec.profile_display_name,
                    rec.name>>
        present == {i \in 1..4 : fields[i] /= <<>>}
    IN  IF present = {} THEN <<>>
        ELSE fields[CHOOSE i \in present : \A j \in present : i <= j]

\* C17: resolve_user_name returns a display name for every user id: the raw
\* id when the client is absent, the lookup raises, the response is not ok or
\* every name field is missing or empty, and otherwise the first name field
\* that is present (real name, profile real name, profile display name, short
\* name).
C17_ResolveNeverFails ==
    \A r \in Resolvers :
       res[r].pc = "done" =>
             /\ res[r].ret /= <<>>
             /\ ~slack_app => res[r].ret = res[r].user
             /\ res[r].o \in {"not_ok", "raise"} => res[r].ret = res[r].user
             /\ res[r].o = "ok" =>
                   res[r].ret = IF FirstName(res[r].rec) = <<>> THEN res[r].user
                                ELSE FirstName(res[r].rec)

C17_Witness ==
    \E r1, r2 \in Resolvers :
       /\ res[r1].pc = "done" /\ res[r1].o = "ok"
       /\ res[r1].rec = NoRecord /\ res[r1].ret = res[r1].user
       /\ res[r2].pc = "done" /\ res[r2].o = "ok"
       /\ res[r2].rec.real_name = <<>> /\ res[r2].rec.profile_real_name = <<>>
       /\ res[r2].ret = <<"d">>

\* C18 (entries are permanent)
C18_EntryKept ==
    \A u \in DOMAIN user_cache :
       u \in DOMAIN user_cache' /\ user_cache'[u] = user_cache[u]

\* C18 (later resolves are free): a call that finds an entry returns it and
\* issues no network call
C18_HitIsFree ==
    \A r \in Resolvers :
       (res[r].pc = "done" /\ res[r].hit) =>
          ~res[r].net /\ res[r].ret = res[r].cached

\* C18: once a user id has an entry in the cache the entry is never removed or
\* changed, and every later resolve of the id returns the cached value without
\* a network call, for every interleaving of the resolving threads.
C18_CachePermanent == []C18_HitIsFree /\ [][C18_EntryKept]_vars

\* outbound translation of an operator's text: format_user_input, then the
\* @name tokens of cached users
Outbound(text, items) == ResolveMentionsInMessage(FormatUserInput(text), items)

\* C19: the text handed to chat_postMessage for a submission is the outbound
\* translation of the submitted text: [label](url) as <url|label>, bare URLs
\* as <url>, @name tokens of cached users as <@id>.
C19_PostedIsTranslated ==
    outbox.set => outbox.text = Outbound(Strip(outbox.submitted), cache_items)

\* C20: for every entry id -> name of the user cache, "@name hi" translates
\* outbound to "<@id> hi", and "<@id> hi" translates inbound to the mention of
\* that name followed by " hi".
C20_MentionRoundTrip ==
    tr.set =>
       /\ tr.out = <<"<", "@">> \o tr.id \o <<">">> \o Hi
       /\ tr.inb = MentionMarkup(tr.name) \o Hi

\* --------------------------------------------------- claims C21 .. C30
\* the ids of the cached users whose display name equals name, ignoring case
IdsNamed(name) ==
    {cache_items[i].id :
        i \in {j \in 1..Len(cache_items) : Lower(cache_items[j].name) = Lower(name)}}

\* C21: resolve_mentions_in_message replaces the token @name by <@id> exactly
\* when name equals, ignoring case, the display name of a cached user id; an
\* unresolved token stays as literal text, and the text before and after the
\* token is kept.
C21_MentionExactly ==
    fmt.fn = "resolve_mentions_in_message" =>
       IF IdsNamed(fmt.name) = {}
         THEN fmt.out = fmt.text
         ELSE \E id \in IdsNamed(fmt.name) :
                 fmt.out = fmt.pre \o <<"<", "@">> \o id \o <<">">> \o fmt.post

\* a name typed in capitals resolves to the user cached in lower case
C21_Witness ==
    /\ fmt.fn = "resolve_mentions_in_message"
    /\ fmt.name = <<"A">> /\ fmt.pre /= <<>> /\ fmt.post /= <<>>
    /\ Len(cache_items) = 2
    /\ cache_items[2].name = <<"a">>
    /\ fmt.out = fmt.pre \o <<"<", "@">> \o cache_items[2].id \o <<">">> \o fmt.post

\* an unresolved name stays as it was typed
C21_WitnessLiteral ==
    /\ fmt.fn = "resolve_mentions_in_message"
    /\ fmt.name = <<"b">> /\ cache_items /= <<>>
    /\ fmt.out = fmt.text

\* what the rule of a token writes for it: the link markup of <url|label> and
\* <url>, the mention markup of <@id> with the cached name or the id
Produced(tok) ==
    IF tok.kind = "link"
      THEN LinkMarkup(tok.target, IF tok.label = <<>> THEN tok.target ELSE tok.label)
      ELSE MentionMarkup(DictGet(user_cache, tok.target, tok.target))

\* C22: the markup parse_slack_formatting returns for a link token or a user
\* mention is the markup the token's rule wrote: no later rule (bold, italic,
\* strikethrough, ...) matched inside the URL, the label or the display name.
C22_ProducedTextKept ==
    (fmt.fn = "parse_slack_formatting" /\ fmt.tok.kind \in {"link", "user"}) =>
       fmt.out = Produced(fmt.tok)

\* C23: parse_slack_formatting turns <#id|label> into #label, and <#id|> into
\* # followed by the name the channel cache has for id, or else by id.
C23_ChannelMention ==
    (fmt.fn = "parse_slack_formatting" /\ fmt.tok.kind = "channel") =>
       fmt.out = <<"#">> \o (IF fmt.tok.label /= <<>> THEN fmt.tok.label
                              ELSE DictGet(fmt.chans, fmt.tok.target, fmt.tok.target))

\* C24: format_user_input leaves a token that is wrapped already as it is,
\* turns [label](url) into <url|label> without wrapping a URL inside it again,
\* and applied to its own result returns that result.
C24_WrapOnce ==
    fmt.fn = "format_user_input" =>
       /\ fmt.shape = "wrapped" => fmt.out = fmt.text
       /\ fmt.shape = "markdown" => fmt.out = WrappedLink(fmt.label, UrlText)
       /\ fmt.again = fmt.out

\* C24 (twice is once) alone
C24_Idempotent ==
    fmt.fn = "format_user_input" => fmt.again = fmt.out

\* C25: a member listing in which nothing failed but rate-limited requests
\* ends with the complete member list of the channel stored: the rate-limited
\* request was retried, the members fetched before it were kept.
C25_RateLimitRetried ==
    (mw.pc = "done" /\ \A i \in 1..Len(mw.log) : mw.log[i] \in {"ok", "rl_result", "rl_exc"})
       => /\ mw.chan \in DOMAIN channel_members
          /\ [i \in 1..Len(channel_members[mw.chan]) |-> channel_members[mw.chan][i].id]
                = Concat(mpages)

\* C26: no step of a worker thread assigns channels, filtered_channels or
\* channels_loaded itself: the fields the UI loop reads and writes change only
\* inside callbacks handed to call_from_thread.
C26_HandOffOnly == wrote.by /= "worker"

\* the threads that are inside resolve_user_name past its cache test: each
\* of them stores an entry when its users_info call returns
Storing ==
    (IF mw.pc = "lookup" THEN {"members"} ELSE {})
      \cup (IF lw.pc = "lookup" THEN {"messages"} ELSE {})
      \cup (IF ui.pc = "lookup" THEN {"ui"} ELSE {})

\* C27: at no moment are two threads both inside a write of the user-name
\* cache.
C27_OneWriter == Cardinality(Storing) <= 1

\* C28: no network request is issued by the UI loop's thread.
C28_NoRequestOnUiLoop == net.thread /= "ui"

\* C29: a poll that finds a watermark emits a fetched message exactly when
\* the numeric value of its ts is greater than that of the watermark, also
\* when the two decimal strings differ in length.
C29_NumericOrder ==
    (lastDisp.kind /= "none" /\ lastDisp.mounted /\ lastDisp.before /= NoTs) =>
       \A i \in 1..Len(lastDisp.msgs) :
          (\E j \in 1..Len(lastDisp.out) : lastDisp.out[j] = lastDisp.msgs[i])
             <=> TsNum(lastDisp.msgs[i].ts) > TsNum(lastDisp.before)

\* send_message gives up: the thread ends with an error status, no
\* chat_postMessage call is made and the operator's input stays
Abandoned ==
    /\ snd' = NoSend
    /\ status'.type = "error"
    /\ outbox' = outbox
    /\ msg_input' = msg_input

\* C30, for one step of send_message
C30_Step ==
    /\ (outbox'.set /\ outbox' /= outbox) =>
          \/ snd.pc = "info_ret" /\ snd.res = "member"
          \/ snd.pc = "join_ret" /\ snd.res = "ok"
    /\ (snd.pc = "info_ret" /\ snd.res \in {"error", "raise"}) => Abandoned
    /\ (snd.pc = "join_ret" /\ snd.res \in {"error", "raise"}) => Abandoned
    /\ (snd.pc = "post_ret" /\ snd.res \in {"error", "raise"}) => Abandoned
    /\ snd.pc /= "idle" => thr' = thr /\ selected_channel_id' = selected_channel_id

\* C30: send_message calls chat_postMessage only after the membership check
\* answered "member" or the join it attempted succeeded; when the membership
\* check, the join or the post fails it posts nothing afterwards, ends with an
\* error status and leaves the input as it is, and the polling thread goes on.
C30_SendOrAbandon == [][C30_Step]_vars

\* send_message makes a request in this step: conversations_info,
\* conversations_join or chat_postMessage, with channel=self.selected_channel_id
SendRequests ==
    /\ snd.pc \in {"start", "info_ret", "join_ret"}
    /\ snd'.pc \in {"info_ret", "join_ret", "post_ret"}
    /\ snd'.pc /= snd.pc

\* C31, for one step of send_message
C31_Step ==
    /\ SendRequests => selected_channel_id = snd.chan
    /\ (outbox'.set /\ outbox' /= outbox) => outbox'.channel = snd.chan

\* C31: the membership check, the join and the post of one send_message all
\* target the channel that was selected when the message was submitted, also
\* when the operator leaves or switches channel while the send is in progress.
C31_SameChannel == [][C31_Step]_vars

\* a step that opens a channel from the channel selection screen
Opens == selected_channel_id = NoChannel /\ selected_channel_id' /= NoChannel

\* C32, for one step
C32_Step ==
    /\ (Opens /\ selected_index < Len(suggestion_labels)) =>
          selected_channel_id' = suggestion_labels[selected_index + 1]
    /\ (Selecting' /\ selected_index' < Len(suggestion_labels')) =>
          /\ selected_index' < Len(filtered_channels')
          /\ filtered_channels'[selected_index' + 1] = suggestion_labels'[selected_index' + 1]

\* C32: the channel opened from the channel input is the channel of the
\* highlighted suggestion: filtered_channels at the selected index denotes
\* the same channel as the suggestion label at that index, also after a
\* background refresh has completed.
C32_OpensHighlighted == [][C32_Step]_vars

\* message k is in the watched channel and newer than the watermark: it was
\* posted after a load displayed messages, and no poll has passed it
Pending(k) ==
    /\ last_message_ts /= NoTs
    /\ \E i \in 1..Len(history[selected_channel_id]) :
          history[selected_channel_id][i].ts = TsStr(k)
    /\ StrGreater(TsStr(k), last_message_ts)

\* message k has been written to the display
Shown(k) == \E i \in 1..Len(emitted) : emitted[i].ts = TsStr(k)

\* C33: while the channel stays watched and the polls succeed, every message
\* posted to it after the initial load is eventually written to the display,
\* whatever number of messages arrives between two polls.
C33_EventuallyShown == \A k \in 1..MaxPosts : [](Pending(k) => <>Shown(k))

\* a pass is under way: inside the `while True` loop, or after it and before
\* _fetch_channels_impl returns
InPass == fc.pc \in {"fetch", "finish"}

\* C34, for one step: a request that fails with another error than a rate
\* limit is the last one of the pass, and a pass starts only when none is
\* under way
C34_Step ==
    /\ (fc.pc = "fetch" /\ reqLog' /= reqLog /\ IsError(reqLog'[Len(reqLog')].outcome)) =>
          fc'.pc = "finish"
    /\ (fc'.pc = "fetch" /\ fc'.page_count = 0 /\ reqLog' = <<>> /\ fc' /= fc) =>
          ~InPass

\* C34: a pass of the channel-list fetch ends: with finitely many
\* rate-limited responses and a finite cursor chain the pagination loop is
\* left and the pass returns; a non-rate-limit error ends the loop at once;
\* the refresh loop starts a pass only after the previous one has ended.
C34_PassEnds ==
    /\ [][C34_Step]_vars
    /\ (InPass ~> fc.pc = "sleep")

\* a pass that was rate limited and fetched more than one page has ended,
\* as a refresh pass
C34_Witness ==
    /\ fc.pc = "sleep"
    /\ fc.page_count > 1
    /\ \E i \in 1..Len(reqLog) : IsRateLimit(reqLog[i].outcome)
    /\ report.set /\ report.old_count > 0

====
